---- MODULE Spec2Model ----
(***************************************************************************)
(* The polling harness of hands-on-debezium: the three eventual-           *)
(* consistency pollers of the sink suites (pollTrinoUntilFound,            *)
(* pollEsUntilFound, pollRedisForId in its GET and its KEYS-scan version), *)
(* the connector registration (createConnector) and the readiness gate     *)
(* (waitForConnectorRunning).                                              *)
(*                                                                         *)
(* Time is counted in whole ticks of one second: the gate's fixed sleep of *)
(* 1000 ms is one tick, a poll interval of 2000 ms is two.                 *)
(***************************************************************************)
EXTENDS Integers, Sequences, FiniteSets, TLC

VARIABLES
    now,             \* Date.now()
    \* ---- one call of a poller
    poller,          \* which of the pollers runs
    maxWaitMs,       \* its maximum wait
    pollIntervalMs,  \* its poll interval
    startTime,       \* const startTime = Date.now()
    pc,              \* "check" | "probe" | "get" | "sleep" | "done"
    store,           \* the downstream store as the probe sees it
    outcome,         \* "none" | "returned" | "thrown"
    ret,             \* the value returned, the error thrown, or "none"
    exitVia,         \* "none" | "match" | "deadline" | "probeError"
    attempts,        \* probe attempts started
    sleeps,          \* sleeps finished
    attemptStart,    \* when the last attempt started
    lastDur,         \* how long the last attempt took
    lastProbe,       \* what the last attempt's probe gave
    probeErrors,     \* attempts whose probe failed
    matched,         \* the record of the attempt that found a match, or "none"
    matchSnap,       \* <<attempts, sleeps, now>> right after that attempt
    endTime,         \* when the call ended
    visibleSince,    \* since when the store has held the record without a break, -1 if it does not
    \* ---- a suite's setup: createConnector, then waitForConnectorRunning
    name,            \* the connector's name
    timeoutMs,       \* the gate's timeout
    start,           \* const start = Date.now()
    gpc,             \* "create" | "check" | "status" | "sleep" | "done" | "idle"
    registered,      \* whether the control plane holds the connector
    response,        \* the status of createConnector's response, 0 before it
    regOutcome,      \* createConnector: "none" | "returned" | "thrown"
    status,          \* what the last getConnectorStatus gave
    gOutcome,        \* the gate: "none" | "returned" | "thrown"
    gError,          \* the error the gate threw
    checks,          \* status checks finished
    failedChecks,    \* status checks that failed
    gSleeps,         \* the gate's sleeps finished
    satisfied,       \* status checks that satisfied the running condition
    gEnd,            \* when the gate ended
    \* ---- one call of a wait helper: waitForIndex, waitForDocumentCount
    helper,          \* which of the two runs
    expectedCount,   \* waitForDocumentCount's expectedCount
    wTimeoutMs,      \* its timeout
    wStart,          \* const start = Date.now()
    wpc,             \* "check" | "probe" | "sleep" | "done" | "idle"
    index,           \* the Elasticsearch index: whether it exists, its documents' count
    wOutcome,        \* "none" | "returned" | "thrown"
    wChecks,         \* probes finished
    wSleeps,         \* sleeps finished
    indexName,       \* the index it waits for
    wLast,           \* what the last probe gave
    wFailed,         \* probes that failed
    wError,          \* the error thrown
    wEnd,            \* when the call ended
    \* ---- the module state of trino.ts and two loops that call executeTrinoQuery
    trinoClient,     \* let trinoClient: Trino | null
    made,            \* clients created so far
    cpc,             \* per caller: "call" | "query"
    local,           \* per caller: const client = getTrinoClient()
    result,          \* per caller: what its last query gave
    alone,           \* per caller: what that query gives to a caller running alone
    calls,           \* per caller: queries finished
    trinoData,       \* what Trino holds of the awaited record
    \* ---- the suites of one run, in parallel
    at,              \* per suite: the step of its script it is at
    connectors,      \* the connectors the control plane holds
    \* ---- the data of one run: source tables, topics, sinks
    users,           \* the rows of the PostgreSQL users table
    orders,          \* the ids of the rows of the orders table
    nextUserId,      \* users.id SERIAL
    nextOrderId,     \* orders.id SERIAL
    usersTopic,      \* the change events of dbz.public.users, oldest first
    ordersTopic,     \* the change events of dbz.public.orders
    esOffset,        \* events of usersTopic the Elasticsearch sink has put
    redisOffset,     \* per topic: events the Redis sink has put
    esDocs,          \* the documents of the index dbz.public.users
    redis,           \* the entries of the Redis database
    syncPc,          \* the sync test: "insert" | "poll" | "done" | "idle"
    syncId,          \* the id of the user it inserted
    syncRet,         \* what pollRedisForId returned to it
    \* ---- one call of executeTrinoQuery on a result stream
    iter,            \* the pages of the stream, in order
    qpos,            \* pages consumed
    columns,         \* const columns = []
    allData,         \* const allData = []
    qpc,             \* "call" | "iterate" | "done" | "thrown" | "idle"
    \* ---- one run of check.sh
    tools,           \* per step: the exit status its command will give
    shpc,            \* the number of the step to run next, 0 when the script ended
    ran,             \* the steps run so far, in order
    passed,          \* whether '=== All checks passed ===' was printed
    exitStatus,      \* the script's exit status, -1 while it runs
    \* ---- the beforeAll of one sink suite
    sSuite,          \* the suite, named like its sink connector
    spc,             \* "source" | "sink" | "insert" | "poll" | "tests" | "failed" | "idle"
    sLog,            \* the steps of the setup that succeeded, in order
    sError,          \* the error the setup threw, or "none"
    sReg,            \* the connectors the control planes hold
    downstream,      \* what the warmup's lookup finds in the sink's store
    sWaited,         \* how long the warmup poll has waited
    sFound,          \* what the warmup poll found
    \* ---- the Iceberg catalog behind Trino
    catalog,         \* its schemas and its tables, each with definition and row count
    catCall,         \* the last call of the harness on it and how it ended
    catCalls         \* calls made

\* ---------------------------------------------------------------- bounds
MaxWait == 3
MaxInterval == 2
MaxProbe == 2
MaxStart == 1

\* ------------------------------------------------------ the store, probes
Pollers ==
    {"pollTrinoUntilFound", "pollEsUntilFound", "pollRedisForId", "pollRedisForIdKeys"}
Booleans == {"pollTrinoUntilFound", "pollEsUntilFound"}

\* The awaited record as it may read downstream.
Values == {"v1", "v2"}
\* "missing": the table / index is not there yet; "empty": it is, without the record.
StoreStates == {"missing", "empty"} \cup Values

Failed == [kind |-> "error", rows |-> << >>]
Rows(rs) == [kind |-> "ok", rows |-> rs]

\* executeTrinoQuery(`SELECT email FROM iceberg.cdc.users WHERE email = ...`):
\* rejects when the table does not exist or Trino cannot be reached.
ExecuteTrinoQuery(st, fail) ==
    IF fail \/ st = "missing" THEN Failed
    ELSE Rows(IF st \in Values THEN <<st>> ELSE << >>)

\* searchDocuments(esClient, index, {term: {[field]: value}}): rejects when the
\* index does not exist or Elasticsearch cannot be reached.
SearchDocuments(st, fail) ==
    IF fail \/ st = "missing" THEN Failed
    ELSE Rows(IF st \in Values THEN <<st>> ELSE << >>)

\* redis.get(key): the value, or null (no rows) for a key that is not there;
\* rejects when Redis cannot be reached.
RedisGet(st, fail) ==
    IF fail THEN Failed
    ELSE Rows(IF st \in Values THEN <<st>> ELSE << >>)

\* The keys of the Redis database: the sink's offset key, a key that is no
\* Debezium key JSON, the key of another row, and the awaited row's key (last)
\* once the sink has written it.
TargetId == 1
OffsetKey == [text |-> "__kafka.offset.dbz.public.users", id |-> 0]
JunkKey == [text |-> "not-json", id |-> 0]
RowKey(i) == [text |-> "debezium-key", id |-> i]
RedisKeys(st, fail) ==
    IF fail THEN Failed
    ELSE Rows(<<OffsetKey, JunkKey, RowKey(TargetId + 1)>>
              \o (IF st \in Values THEN <<RowKey(TargetId)>> ELSE << >>))

\* for (const key of keys) { ... }: the keys whose id extractIdFromKey gives as
\* targetId; offset keys are skipped, a key that does not parse throws inside
\* the try and is skipped.
RECURSIVE ScanKeys(_, _)
ScanKeys(keys, targetId) ==
    IF keys = << >> THEN << >>
    ELSE LET key == Head(keys) IN
         IF key.text = "__kafka.offset.dbz.public.users" THEN ScanKeys(Tail(keys), targetId)
         ELSE IF key.text = "not-json" THEN ScanKeys(Tail(keys), targetId)
         ELSE IF key.id = targetId THEN <<key>>
         ELSE ScanKeys(Tail(keys), targetId)

\* One probe of poller k against the store: the rows or value that match.
Probe(k, st, fail) ==
    CASE k = "pollTrinoUntilFound" -> ExecuteTrinoQuery(st, fail)
      [] k = "pollEsUntilFound" -> SearchDocuments(st, fail)
      [] k = "pollRedisForId" -> RedisGet(st, fail)
      [] OTHER ->
           LET ks == RedisKeys(st, fail) IN
           IF ks.kind = "error" THEN Failed
           ELSE IF ScanKeys(ks.rows, TargetId) = << >> THEN Rows(<< >>)
           ELSE Rows(<<st>>)

\* ------------------------------------------------------------ the pollers
\* while (Date.now() - startTime < maxWaitMs)
LoopContinuesLate(t, s, d) == t - s <= d
LoopContinues(t, s, d) == t - s < d

\* return false / return null after the loop
NotFound(k) == IF k \in Booleans THEN "false" ELSE "null"
DeadlineExitThrows(k) == [how |-> "thrown", value |-> "timeout"]
DeadlineExit(k) == [how |-> "returned", value |-> NotFound(k)]

\* What the loop body does with a probe's result: the try/catch of the Trino
\* and Elasticsearch pollers swallows a failed probe, pollRedisForId awaits
\* redis.get / redis.keys outside any try; a non-empty result returns, and the
\* KEYS-scan version returns redis.get(key), one more read.
AfterProbeNoReturn(k, r) ==
    IF r.kind = "error" THEN (IF k \in Booleans THEN "sleep" ELSE "throw")
    ELSE "sleep"
AfterProbe(k, r) ==
    IF r.kind = "error" THEN (IF k \in Booleans THEN "sleep" ELSE "throw")
    ELSE IF Len(r.rows) > 0
         THEN (IF k = "pollRedisForIdKeys" THEN "get" ELSE "return")
         ELSE "sleep"

\* return true / return value
FoundValue(k, r) == IF k \in Booleans THEN "true" ELSE r.rows[1]

\* A probe result that holds a match.
IsMatch(r) == r.kind = "ok" /\ Len(r.rows) > 0

pollVars == <<poller, maxWaitMs, pollIntervalMs, startTime, pc, store, outcome, ret,
              exitVia, attempts, sleeps, attemptStart, lastDur, lastProbe,
              probeErrors, matched, matchSnap, endTime, visibleSince>>
gateVars == <<name, timeoutMs, start, gpc, registered, response, regOutcome, status,
              gOutcome, gError, checks, failedChecks, gSleeps, satisfied, gEnd>>
waitVars == <<helper, expectedCount, wTimeoutMs, wStart, wpc, index, wOutcome, wChecks,
              wSleeps, indexName, wLast, wFailed, wError, wEnd>>
clientVars == <<trinoClient, made, cpc, local, result, alone, calls, trinoData>>
suiteVars == <<at, connectors>>
runVars == <<users, orders, nextUserId, nextOrderId, usersTopic, ordersTopic, esOffset,
             redisOffset, esDocs, redis, syncPc, syncId, syncRet>>
queryVars == <<iter, qpos, columns, allData, qpc>>
shellVars == <<tools, shpc, ran, passed, exitStatus>>
setupVars == <<sSuite, spc, sLog, sError, sReg, downstream, sWaited, sFound>>
catalogVars == <<catalog, catCall, catCalls>>
restVars == <<queryVars, shellVars, setupVars, catalogVars>>
vars == <<now, pollVars, gateVars, waitVars, clientVars, suiteVars, runVars, restVars>>

\* --------------------------------------------- the connector control plane
MaxTasks == 2
MaxTimeout == 3

ConnectorNames == {"postgres-source", "iceberg-sink"}
States == {"RUNNING", "FAILED", "UNASSIGNED"}
TaskStates == {"RUNNING", "FAILED"}
TaskLists == UNION {[1 .. n -> [state : TaskStates]] : n \in 0 .. MaxTasks}

\* What awaiting getConnectorStatus gives: fetch rejects (the worker cannot be
\* reached), or the parsed body: of a 404 for a connector that is not
\* registered, which has neither connector nor tasks, or of the status.
NoReply == [kind |-> "none", connector |-> [state |-> ""], tasks |-> << >>]
Rejected == [kind |-> "rejected", connector |-> [state |-> ""], tasks |-> << >>]
NotFoundBody == [kind |-> "nofields", connector |-> [state |-> ""], tasks |-> << >>]
StatusBody(c, ts) == [kind |-> "status", connector |-> [state |-> c], tasks |-> ts]
GetConnectorStatus(reg, fail, c, ts) ==
    IF fail THEN Rejected
    ELSE IF ~reg THEN NotFoundBody
    ELSE StatusBody(c, ts)

\* POST /connectors: 201 and the connector is registered, 409 when it already
\* is, or an error of the worker that leaves things as they were.
PostConnectors(reg, srvErr) ==
    IF srvErr THEN [status |-> 500, registered |-> reg]
    ELSE IF reg THEN [status |-> 409, registered |-> TRUE]
    ELSE [status |-> 201, registered |-> TRUE]

\* createConnector: awaits fetch and returns the response whatever its
\* status; it settles otherwise only when fetch rejects.
CreateConnectorResult(fail, resp) ==
    IF fail THEN [how |-> "thrown", status |-> 0]
    ELSE [how |-> "returned", status |-> resp.status]

\* beforeAll: await createConnector(...); await waitForConnectorRunning(...).
\* The response is dropped; the gate is called next unless the await threw.
AfterCreate(res) == IF res.how = "thrown" THEN "done" ELSE "check"

\* ------------------------------------------------------ the readiness gate
\* setTimeout(resolve, 1000)
GateIntervalMs == 1

\* while (Date.now() - start < timeoutMs)
GateContinuesLate(t, s, d) == t - s <= d
GateContinues(t, s, d) == t - s < d

\* status.tasks.every((t) => t.state === 'RUNNING')
RECURSIVE Every(_)
Every(ts) ==
    IF ts = << >> THEN TRUE
    ELSE IF Head(ts).state = "RUNNING" THEN Every(Tail(ts))
    ELSE FALSE

\* status.connector.state === 'RUNNING' && status.tasks.every(...)
RunningConditionFirstTask(st) ==
    /\ st.connector.state = "RUNNING"
    /\ (st.tasks = << >> \/ Head(st.tasks).state = "RUNNING")
RunningCondition(st) ==
    /\ st.connector.state = "RUNNING"
    /\ Every(st.tasks)

\* The try/catch of the loop body: a rejected fetch, or the TypeError of
\* reading status.connector.state of a body without the fields, is caught and
\* the loop goes on to its sleep.
AfterStatusNoCatch(reply) ==
    IF reply.kind # "status" THEN "throw"
    ELSE IF RunningCondition(reply) THEN "return"
    ELSE "sleep"
AfterStatus(reply) ==
    IF reply.kind # "status" THEN "sleep"
    ELSE IF RunningCondition(reply) THEN "return"
    ELSE "sleep"

\* The errors: new Error(`Connector ${name} did not reach RUNNING state within
\* ${timeoutMs}ms`), and what a failed status check raises.
NoError == [text |-> "", name |-> "", timeoutMs |-> 0]
CheckError(reply) ==
    IF reply.kind = "rejected"
    THEN [text |-> "fetch failed", name |-> "", timeoutMs |-> 0]
    ELSE [text |-> "Cannot read properties of undefined", name |-> "", timeoutMs |-> 0]
TimeoutErrorDefault(n, t) ==
    [text |-> "did not reach RUNNING state within", name |-> n, timeoutMs |-> 30]
TimeoutError(n, t) ==
    [text |-> "did not reach RUNNING state within", name |-> n, timeoutMs |-> t]

\* Neither a registration nor a gate is running.
GateIdle ==
    /\ name = "postgres-source"
    /\ timeoutMs = 0
    /\ start = 0
    /\ gpc = "idle"
    /\ registered = FALSE
    /\ response = 0
    /\ regOutcome = "none"
    /\ status = NoReply
    /\ gOutcome = "none"
    /\ gError = NoError
    /\ checks = 0
    /\ failedChecks = 0
    /\ gSleeps = 0
    /\ satisfied = 0
    /\ gEnd = 0

\* ------------------------------------------- the call an attempt makes
\* What one attempt of a loop calls on the system it observes: the query
\* `SELECT email FROM iceberg.cdc.users WHERE ...` through executeTrinoQuery,
\* client.search through searchDocuments, redis.get, redis.keys, the fetch of
\* /connectors/{name}/status (no method given: a GET), client.indices.exists,
\* client.count.
ProbeCallDeleting(k) == "DELETE"
ProbeCall(k) ==
    CASE k = "pollTrinoUntilFound" -> "SELECT"
      [] k = "pollEsUntilFound" -> "search"
      [] k = "pollRedisForId" -> "GET"
      [] k = "pollRedisForIdKeys" -> "KEYS"
      [] k = "waitForConnectorRunning" -> "GET status"
      [] k = "waitForIndex" -> "indices.exists"
      [] OTHER -> "count"

\* The calls that read. Any other call (an INSERT, a DEL, a DELETE of the
\* connector) leaves the target changed.
ReadCalls == {"SELECT", "search", "GET", "KEYS", "GET status", "indices.exists", "count"}
TargetAfter(call, target, changed) == IF call \in ReadCalls THEN target ELSE changed

\* ------------------------------------------------------ the wait helpers
MaxDocs == 2

WaitHelpers == {"waitForIndex", "waitForDocumentCount"}
IndexStates == {ix \in [exists : BOOLEAN, count : 0 .. MaxDocs] : ix.exists \/ ix.count = 0}
NoIndex == [exists |-> FALSE, count |-> 0]

\* client.indices.exists({index}): whether the index exists; rejects when
\* Elasticsearch cannot be reached.
WaitFailed == [kind |-> "error", exists |-> FALSE, count |-> 0]
IndicesExists(ix, fail) ==
    IF fail THEN WaitFailed ELSE [kind |-> "ok", exists |-> ix.exists, count |-> 0]

\* client.count({index}): the documents' count; rejects when the index does
\* not exist ('Index not ready') or Elasticsearch cannot be reached.
Count(ix, fail) ==
    IF fail \/ ~ix.exists THEN WaitFailed
    ELSE [kind |-> "ok", exists |-> TRUE, count |-> ix.count]

WaitProbe(h, ix, fail) ==
    IF h = "waitForIndex" THEN IndicesExists(ix, fail) ELSE Count(ix, fail)

\* setTimeout(resolve, 1000)
WaitIntervalMs == 1

\* while (Date.now() - start < timeoutMs)
WaitContinues(t, s, d) == t - s < d

\* if (exists) / if (response.count >= expectedCount)
WaitCondition(h, reply, expected) ==
    IF h = "waitForIndex" THEN reply.exists ELSE reply.count >= expected

\* The loop body: a rejected probe is caught, a satisfied condition returns,
\* anything else sleeps.
AfterWaitProbe(h, reply, expected) ==
    IF reply.kind = "error" THEN "sleep"
    ELSE IF WaitCondition(h, reply, expected) THEN "return"
    ELSE "sleep"

\* throw new Error(`Index ${indexName} did not appear within ${timeoutMs}ms`)
\* throw new Error(`Index ${indexName} did not reach ${expectedCount} documents
\* within ${timeoutMs}ms`)
NoWaitError == [text |-> "", index |-> "", expectedCount |-> 0, timeoutMs |-> 0]
WaitTimeoutErrorNoCount(h, ix, expected, t) ==
    [text |-> "did not appear within", index |-> ix, expectedCount |-> 0, timeoutMs |-> t]
WaitTimeoutError(h, ix, expected, t) ==
    IF h = "waitForIndex"
    THEN [text |-> "did not appear within", index |-> ix, expectedCount |-> 0,
          timeoutMs |-> t]
    ELSE [text |-> "did not reach documents within", index |-> ix,
          expectedCount |-> expected, timeoutMs |-> t]

\* No probe has settled yet.
NoWaitReply == [kind |-> "none", exists |-> FALSE, count |-> 0]

\* No wait helper is running.
WaitIdle ==
    /\ helper = "waitForIndex"
    /\ indexName = "dbz.public.users"
    /\ expectedCount = 0
    /\ wTimeoutMs = 0
    /\ wStart = 0
    /\ wpc = "idle"
    /\ index = NoIndex
    /\ wOutcome = "none"
    /\ wChecks = 0
    /\ wSleeps = 0
    /\ wLast = NoWaitReply
    /\ wFailed = 0
    /\ wError = NoWaitError
    /\ wEnd = 0

\* ------------------------------------------------------ the Trino client
MaxCalls == 2
MaxClients == 2

\* Two loops of one process that call executeTrinoQuery.
Callers == {"loop1", "loop2"}

\* let trinoClient: Trino | null = null; Trino.create({...}) gives a client,
\* here numbered and marked with the caller whose call created it.
NullClient == [id |-> 0, by |-> "none"]
NewClient(n, c) == [id |-> n, by |-> c]

\* getTrinoClient(): if (!trinoClient) trinoClient = Trino.create(...);
\* return trinoClient. The value is both stored and returned.
GetTrinoClientFresh(cur, fresh) == fresh
GetTrinoClient(cur, fresh) == IF cur = NullClient THEN fresh ELSE cur

\* const client = getTrinoClient(); const iter = await client.query(query):
\* the query runs on the client the call got, whatever trinoClient is by then.
QueryClientModule(loc, cur) == cur
QueryClient(loc, cur) == loc

\* client.query(query) and the iteration of its result: a TypeError on a
\* client that is null, else what the query gives.
TypeErrorReply == [kind |-> "error", rows |-> <<"TypeError">>]
ClientQuery(cl, st, fail) ==
    IF cl = NullClient THEN TypeErrorReply ELSE ExecuteTrinoQuery(st, fail)

\* No loop is calling executeTrinoQuery.
ClientIdle ==
    /\ trinoClient = NullClient
    /\ made = 0
    /\ cpc = [c \in Callers |-> "idle"]
    /\ local = [c \in Callers |-> NullClient]
    /\ result = [c \in Callers |-> Rows(<< >>)]
    /\ alone = [c \in Callers |-> Rows(<< >>)]
    /\ calls = [c \in Callers |-> 0]
    /\ trinoData = "missing"

\* ------------------------------------------------------------ the suites
\* The suites that register connectors: 'Debezium CDC' and the three sink
\* suites, each named here like its sink connector.
Suites == {"debezium", "iceberg-sink", "elasticsearch-sink", "redis-sink"}
AllConnectors == {"postgres-source", "iceberg-sink", "elasticsearch-sink", "redis-sink"}

Op(call, arg) == [call |-> call, arg |-> arg]

\* beforeAll: the source connector and its gate; in a sink suite then the
\* sink connector, its gate, and the warmup insert and poll.
BeforeAll(s) ==
    IF s = "debezium"
    THEN <<Op("createConnector", "postgres-source"),
           Op("waitForConnectorRunning", "postgres-source")>>
    ELSE <<Op("createConnector", "postgres-source"),
           Op("waitForConnectorRunning", "postgres-source"),
           Op("createConnector", s),
           Op("waitForConnectorRunning", s),
           Op("warmup", s)>>

\* The tests' calls on the control plane.
Tests(s) ==
    IF s = "debezium"
    THEN <<Op("createConnector", "postgres-source"),
           Op("waitForConnectorRunning", "postgres-source"),
           Op("getConnectorStatus", "postgres-source")>>
    ELSE <<Op("waitForConnectorRunning", s)>>

\* afterAll: the clients are closed; no connector is deleted.
AfterAllDeleting(s) ==
    IF s = "debezium"
    THEN <<Op("deleteConnector", "postgres-source"), Op("sql.end", "")>>
    ELSE <<Op("sql.end", "")>>
AfterAll(s) ==
    CASE s = "elasticsearch-sink" -> <<Op("esClient.close", ""), Op("sql.end", "")>>
      [] s = "redis-sink" -> <<Op("redis.disconnect", ""), Op("sql.end", "")>>
      [] OTHER -> <<Op("sql.end", "")>>

Script(s) == BeforeAll(s) \o Tests(s) \o AfterAll(s)

\* What a call leaves registered: createConnector POSTs /connectors,
\* deleteConnector sends DELETE /connectors/{name}; a fetch that rejects has
\* reached nothing.
ConnectorsAfter(op, regs, fail, srvErr) ==
    IF fail THEN regs
    ELSE IF op.call = "createConnector"
         THEN (IF PostConnectors(op.arg \in regs, srvErr).registered
               THEN regs \cup {op.arg} ELSE regs)
         ELSE IF op.call = "deleteConnector" THEN regs \ {op.arg}
         ELSE regs

\* No suite is running.
SuiteIdle ==
    /\ at = [s \in Suites |-> 0]
    /\ connectors = {}

\* ------------------------------------------ source tables, topics, sinks
MaxUserInserts == 2
MaxOrderInserts == 1

\* 01-init.sql: three users and four orders, ids from the SERIAL columns.
SeedUsers == 3
SeedOrders == 4

\* A field a record does not have (undefined).
NoField == 0

\* A row of users: each insert of the harness has an email of its own
\* (`...-${Date.now()}@example.com`), numbered here like the row; by is the
\* suite whose insert it was.
UserRow(id, nm, by) == [id |-> id, email |-> id, name |-> nm, by |-> by]

\* A change event: op is "r" (snapshot), "c", "u" or "d"; the fields are those
\* of payload.after, and of the deleted row for "d", whose payload.after is null.
UserEvent(op, row) ==
    [op |-> op, table |-> "users", id |-> row.id, email |-> row.email, name |-> row.name]
OrderEvent(op, id) ==
    [op |-> op, table |-> "orders", id |-> id, email |-> NoField, name |-> "undefined"]

\* The Elasticsearch sink on dbz.public.users: the unwrapped row is upserted
\* under _id = id ('key.ignore': 'false', 'write.method': 'UPSERT'); a delete
\* is dropped by the unwrap transform or, when it reaches the sink as a null
\* value, deletes the document ('behavior.on.null.values': 'DELETE').
Doc(ev) == [id |-> ev.id, email |-> ev.email, name |-> ev.name]
EsPut(docs, ev, dropped) ==
    LET rest == {d \in docs : d.id # ev.id} IN
    IF ev.op = "d" THEN (IF dropped THEN docs ELSE rest)
    ELSE rest \cup {Doc(ev)}

\* The Redis sink on dbz.public.users and dbz.public.orders, one database:
\* the key is the stringified id of the row, the value the envelope; a delete
\* leaves an envelope without payload.after, or its tombstone removes the key.
PlainKey(id) == [text |-> "plain", id |-> id]
Entry(ev) ==
    IF ev.op = "d"
    THEN [key |-> PlainKey(ev.id), table |-> ev.table, hasAfter |-> FALSE,
          id |-> NoField, email |-> NoField, name |-> "undefined"]
    ELSE [key |-> PlainKey(ev.id), table |-> ev.table, hasAfter |-> TRUE,
          id |-> ev.id, email |-> ev.email, name |-> ev.name]
RedisPut(entries, ev, removed) ==
    LET rest == {e \in entries : e.key # PlainKey(ev.id)} IN
    IF ev.op = "d" /\ removed THEN rest ELSE rest \cup {Entry(ev)}

\* redis.get(key): the entry, or null.
NoEntry ==
    [key |-> PlainKey(NoField), table |-> "null", hasAfter |-> FALSE,
     id |-> NoField, email |-> NoField, name |-> "undefined"]
RedisGetKey(entries, k) ==
    IF \E e \in entries : e.key = k THEN CHOOSE e \in entries : e.key = k ELSE NoEntry

\* No data flows.
RunIdle ==
    /\ users = {}
    /\ orders = {}
    /\ nextUserId = 0
    /\ nextOrderId = 0
    /\ usersTopic = << >>
    /\ ordersTopic = << >>
    /\ esOffset = 0
    /\ redisOffset = [users |-> 0, orders |-> 0]
    /\ esDocs = {}
    /\ redis = {}
    /\ syncPc = "idle"
    /\ syncId = 0
    /\ syncRet = NoEntry

\* ------------------------------------------------- the Trino result stream
MaxCols == 2
MaxPages == 2
MaxRows == 1

\* The names and the values a result may carry. Two columns of one result may
\* have the same name (SELECT u.id, o.id ...).
ColumnNames == {"id", "name"}
CellValues == {1, 2}
Column(n) == [name |-> n, type |-> "integer"]
ColumnLists == UNION {[1 .. n -> {Column(c) : c \in ColumnNames}] : n \in 1 .. MaxCols}

\* A page of the stream (a QueryResult): columns and data are each there or
\* undefined. The protocol sends no columns while the query is queued, then
\* the same columns with every page, and data only together with columns.
Page(hc, cols, hd, rs) == [hasColumns |-> hc, columns |-> cols, hasData |-> hd, data |-> rs]
PagesOf(cols) ==
    {Page(FALSE, << >>, FALSE, << >>), Page(TRUE, cols, FALSE, << >>)}
        \cup {Page(TRUE, cols, TRUE, rs) :
                 rs \in UNION {[1 .. n -> [1 .. Len(cols) -> CellValues]] : n \in 0 .. MaxRows}}
Streams ==
    UNION {{s \in [1 .. n -> PagesOf(cols)] :
               \A i \in 1 .. n - 1 : s[i].hasColumns => s[i + 1].hasColumns}
           : n \in 0 .. MaxPages, cols \in ColumnLists}

\* const obj = {}; for (let i = 0; i < columns.length; i++) obj[col.name] = row[i]
SetField(obj, k, v) == [n \in DOMAIN obj \cup {k} |-> IF n = k THEN v ELSE obj[n]]
RECURSIVE AssignFrom(_, _, _, _)
AssignFrom(obj, cols, row, i) ==
    IF i > Len(cols) THEN obj
    ELSE AssignFrom(SetField(obj, cols[i].name, row[i]), cols, row, i + 1)
RowObject(cols, row) == AssignFrom([n \in {} |-> 0], cols, row, 1)

\* if (queryResult.columns && columns.length === 0) columns.push(...)
ColumnsAfter(cols, page) ==
    IF page.hasColumns /\ Len(cols) = 0 THEN page.columns ELSE cols

\* if (queryResult.data) for (const row of queryResult.data) allData.push(obj)
RECURSIVE PushRows(_, _, _)
PushRows(data, cols, rs) ==
    IF rs = << >> THEN data
    ELSE PushRows(Append(data, RowObject(cols, Head(rs))), cols, Tail(rs))
AllDataAfter(data, cols, page) ==
    IF page.hasData THEN PushRows(data, cols, page.data) ELSE data

\* ---------------------------------------------------------------- check.sh
MaxExit == 2

\* pnpm run format, pnpm run lint, pnpm run typecheck, pnpm run test
Steps == <<"format", "lint", "typecheck", "test">>

\* set -e: the shell exits with the status of a command that fails.
SetEOff(code) == "continue"
SetE(code) == IF code # 0 THEN "exit" ELSE "continue"

\* No script runs.
ShellIdle ==
    /\ tools = [s \in {} |-> 0]
    /\ shpc = 0
    /\ ran = << >>
    /\ passed = FALSE
    /\ exitStatus = -1

\* ------------------------------------------------- a sink suite's setup
\* The warmup poll of each sink suite: 240000 ms for Iceberg, 120000 ms for
\* Elasticsearch and Redis, at the poller's default interval.
IcebergWarmupMs == 240
SinkWarmupMs == 120
TrinoIntervalMs == 3
SinkIntervalMs == 2
Warmup(s) ==
    CASE s = "iceberg-sink" ->
           [poller |-> "pollTrinoUntilFound", maxWaitMs |-> IcebergWarmupMs,
            pollIntervalMs |-> TrinoIntervalMs]
      [] s = "elasticsearch-sink" ->
           [poller |-> "pollEsUntilFound", maxWaitMs |-> SinkWarmupMs,
            pollIntervalMs |-> SinkIntervalMs]
      [] OTHER ->
           [poller |-> "pollRedisForId", maxWaitMs |-> SinkWarmupMs,
            pollIntervalMs |-> SinkIntervalMs]

\* One probe of the warmup poll. Trino and Elasticsearch are asked for the
\* warmup row's email, which only that row has; Redis is asked for the key
\* String(warmupId), under which the sink also writes the order of that id.
WarmupProbe(s, down, fail) ==
    IF fail THEN Failed
    ELSE IF s = "redis-sink" THEN Rows(IF down = "none" THEN << >> ELSE <<down>>)
    ELSE Rows(IF down = "warmup" THEN <<down>> ELSE << >>)

\* No setup runs.
SetupIdle ==
    /\ sSuite = "iceberg-sink"
    /\ spc = "idle"
    /\ sLog = << >>
    /\ sError = "none"
    /\ sReg = {}
    /\ downstream = "none"
    /\ sWaited = 0
    /\ sFound = "none"

\* ------------------------------------------------------ the Iceberg catalog
MaxTableRows == 2
MaxCatCalls == 3

\* The statements of trino.ts: CREATE SCHEMA IF NOT EXISTS iceberg.<ns>,
\* CREATE TABLE IF NOT EXISTS iceberg.<ns>.<table> (<columns>), and
\* INSERT INTO iceberg.<ns>.<table> ... VALUES ...
Statement(kind, ine, ns, tb, cols) ==
    [kind |-> kind, ifNotExists |-> ine, ns |-> ns, table |-> tb, columns |-> cols]
CreateIcebergNamespace(ns) == Statement("CREATE SCHEMA", TRUE, ns, "", "")
CreateIcebergTableBare(ns, tb, cols) == Statement("CREATE TABLE", FALSE, ns, tb, cols)
CreateIcebergTable(ns, tb, cols) == Statement("CREATE TABLE", TRUE, ns, tb, cols)
InsertIntoIceberg(ns, tb) == Statement("INSERT", FALSE, ns, tb, "")

\* What Trino does with a statement: the catalog after it and whether it
\* succeeded. A CREATE of what exists fails unless it says IF NOT EXISTS, and
\* then changes nothing; a table needs its schema, an INSERT its table.
TrinoExecute(cat, st) ==
    LET same == {t \in cat.tables : t.ns = st.ns /\ t.name = st.table}
        done(c) == [ok |-> TRUE, catalog |-> c]
        failed == [ok |-> FALSE, catalog |-> cat]
    IN CASE st.kind = "CREATE SCHEMA" ->
              IF st.ns \in cat.schemas
              THEN (IF st.ifNotExists THEN done(cat) ELSE failed)
              ELSE done([cat EXCEPT !.schemas = @ \cup {st.ns}])
         [] st.kind = "CREATE TABLE" ->
              IF st.ns \notin cat.schemas THEN failed
              ELSE IF same # {}
              THEN (IF st.ifNotExists THEN done(cat) ELSE failed)
              ELSE done([cat EXCEPT !.tables = @ \cup
                            {[ns |-> st.ns, name |-> st.table, columns |-> st.columns,
                              rows |-> 0]}])
         [] OTHER ->
              IF same = {} THEN failed
              ELSE done([cat EXCEPT !.tables =
                            (@ \ same) \cup {[t EXCEPT !.rows = @ + 1] : t \in same}])

\* Nothing has been called on the catalog.
CatalogIdle ==
    /\ catalog = [schemas |-> {}, tables |-> {}]
    /\ catCall = [st |-> Statement("none", FALSE, "", "", ""), ok |-> TRUE, existed |-> FALSE]
    /\ catCalls = 0

\* No query result is being read.
QueryIdle ==
    /\ iter = << >>
    /\ qpos = 0
    /\ columns = << >>
    /\ allData = << >>
    /\ qpc = "idle"

RestIdle == QueryIdle /\ ShellIdle /\ SetupIdle /\ CatalogIdle

\* A poller has just been called: const startTime = Date.now().
InitPoll ==
    /\ poller \in Pollers
    /\ maxWaitMs \in -1 .. MaxWait
    /\ pollIntervalMs \in 1 .. MaxInterval
    /\ store \in StoreStates
    /\ startTime = now
    /\ pc = "check"
    /\ outcome = "none"
    /\ ret = "none"
    /\ exitVia = "none"
    /\ attempts = 0
    /\ sleeps = 0
    /\ attemptStart = now
    /\ lastDur = 0
    /\ lastProbe = Rows(<< >>)
    /\ probeErrors = 0
    /\ matched = "none"
    /\ matchSnap = <<0, 0, 0>>
    /\ endTime = now
    /\ visibleSince = (IF store \in Values THEN now ELSE -1)

Init ==
    /\ now \in 0 .. MaxStart
    /\ InitPoll
    /\ GateIdle
    /\ WaitIdle
    /\ ClientIdle
    /\ SuiteIdle
    /\ RunIdle
    /\ RestIdle

\* The loop condition: start an attempt, or leave the loop and return not-found.
LoopCheck ==
    /\ pc = "check"
    /\ UNCHANGED <<gateVars, waitVars, clientVars, suiteVars, runVars, restVars>>
    /\ IF LoopContinues(now, startTime, maxWaitMs)
       THEN /\ pc' = "probe"
            /\ attempts' = attempts + 1
            /\ attemptStart' = now
            /\ UNCHANGED <<outcome, ret, exitVia, endTime>>
       ELSE /\ pc' = "done"
            /\ outcome' = DeadlineExit(poller).how
            /\ ret' = DeadlineExit(poller).value
            /\ exitVia' = "deadline"
            /\ endTime' = now
            /\ UNCHANGED <<attempts, attemptStart>>
    /\ UNCHANGED <<now, poller, maxWaitMs, pollIntervalMs, startTime, store, sleeps,
                   lastDur, lastProbe, probeErrors, matched, matchSnap, visibleSince>>

\* The awaited probe settles after d ticks, with what the store holds then.
ProbeReturn ==
    /\ pc = "probe"
    /\ UNCHANGED <<gateVars, waitVars, clientVars, suiteVars, runVars, restVars>>
    /\ \E d \in 0 .. MaxProbe, fail \in BOOLEAN :
         LET r == Probe(poller, store, fail)
             next == AfterProbe(poller, r)
         IN /\ now' = now + d
            /\ lastDur' = d
            /\ lastProbe' = r
            /\ probeErrors' = IF r.kind = "error" THEN probeErrors + 1 ELSE probeErrors
            /\ IF IsMatch(r)
               THEN matched' = r.rows[1] /\ matchSnap' = <<attempts, sleeps, now + d>>
               ELSE UNCHANGED <<matched, matchSnap>>
            /\ CASE next = "return" ->
                      /\ pc' = "done"
                      /\ outcome' = "returned"
                      /\ ret' = FoundValue(poller, r)
                      /\ exitVia' = "match"
                      /\ endTime' = now + d
                 [] next = "throw" ->
                      /\ pc' = "done"
                      /\ outcome' = "thrown"
                      /\ ret' = "probe error"
                      /\ exitVia' = "probeError"
                      /\ endTime' = now + d
                 [] OTHER ->
                      /\ pc' = next
                      /\ UNCHANGED <<outcome, ret, exitVia, endTime>>
    /\ store' = TargetAfter(ProbeCall(poller), store, "missing")
    /\ UNCHANGED <<poller, maxWaitMs, pollIntervalMs, startTime, attempts,
                   sleeps, attemptStart, visibleSince>>

\* return redis.get(key) of the KEYS-scan version: the async function settles
\* with what this read gives, null when the key is gone by now.
RedisGetReturn ==
    /\ pc = "get"
    /\ UNCHANGED <<gateVars, waitVars, clientVars, suiteVars, runVars, restVars>>
    /\ \E d \in 0 .. MaxProbe, fail \in BOOLEAN :
         LET r == RedisGet(store, fail) IN
         /\ now' = now + d
         /\ lastDur' = lastDur + d
         /\ endTime' = now + d
         /\ pc' = "done"
         /\ IF r.kind = "error"
            THEN outcome' = "thrown" /\ ret' = "probe error" /\ exitVia' = "probeError"
            ELSE /\ outcome' = "returned"
                 /\ ret' = IF Len(r.rows) > 0 THEN r.rows[1] ELSE "null"
                 /\ exitVia' = "match"
    /\ store' = TargetAfter(ProbeCall("pollRedisForId"), store, "missing")
    /\ UNCHANGED <<poller, maxWaitMs, pollIntervalMs, startTime, attempts,
                   sleeps, attemptStart, lastProbe, probeErrors, matched, matchSnap,
                   visibleSince>>

\* await new Promise((resolve) => setTimeout(resolve, pollIntervalMs))
Sleep ==
    /\ pc = "sleep"
    /\ UNCHANGED <<gateVars, waitVars, clientVars, suiteVars, runVars, restVars>>
    /\ now' = now + pollIntervalMs
    /\ sleeps' = sleeps + 1
    /\ pc' = "check"
    /\ UNCHANGED <<poller, maxWaitMs, pollIntervalMs, startTime, store, outcome, ret,
                   exitVia, attempts, attemptStart, lastDur, lastProbe, probeErrors,
                   matched, matchSnap, endTime, visibleSince>>

\* The pipeline, or another suite, changes what is visible downstream.
StoreChange ==
    /\ pc \in {"check", "probe", "get", "sleep"}
    /\ UNCHANGED <<gateVars, waitVars, clientVars, suiteVars, runVars, restVars>>
    /\ store' \in StoreStates \ {store}
    /\ visibleSince' = (IF store' \notin Values THEN -1
                        ELSE IF store \in Values THEN visibleSince ELSE now)
    /\ UNCHANGED <<now, poller, maxWaitMs, pollIntervalMs, startTime, pc, outcome, ret,
                   exitVia, attempts, sleeps, attemptStart, lastDur, lastProbe,
                   probeErrors, matched, matchSnap, endTime>>

PollerStep == LoopCheck \/ ProbeReturn \/ RedisGetReturn \/ Sleep

Next == LoopCheck \/ ProbeReturn \/ RedisGetReturn \/ Sleep \/ StoreChange

Spec == Init /\ [][Next]_vars

\* Every awaited call settles and every timer fires: the poller is never
\* stopped half way.
FairSpec == Init /\ [][Next]_vars /\ WF_vars(PollerStep)

\* ----------------------------------------------------- a suite's setup
\* No poller is running.
PollIdle ==
    /\ poller = "pollTrinoUntilFound"
    /\ maxWaitMs = 0
    /\ pollIntervalMs = 1
    /\ store = "missing"
    /\ startTime = 0
    /\ pc = "idle"
    /\ outcome = "none"
    /\ ret = "none"
    /\ exitVia = "none"
    /\ attempts = 0
    /\ sleeps = 0
    /\ attemptStart = 0
    /\ lastDur = 0
    /\ lastProbe = Rows(<< >>)
    /\ probeErrors = 0
    /\ matched = "none"
    /\ matchSnap = <<0, 0, 0>>
    /\ endTime = 0
    /\ visibleSince = -1

\* beforeAll is about to register a connector, which the control plane may
\* hold already (an earlier run, a suite running in parallel).
GateInit ==
    /\ now \in 0 .. MaxStart
    /\ PollIdle
    /\ WaitIdle
    /\ ClientIdle
    /\ SuiteIdle
    /\ RunIdle
    /\ RestIdle
    /\ name \in ConnectorNames
    /\ timeoutMs \in -1 .. MaxTimeout
    /\ start = 0
    /\ gpc = "create"
    /\ registered \in BOOLEAN
    /\ response = 0
    /\ regOutcome = "none"
    /\ status = NoReply
    /\ gOutcome = "none"
    /\ gError = NoError
    /\ checks = 0
    /\ failedChecks = 0
    /\ gSleeps = 0
    /\ satisfied = 0
    /\ gEnd = 0

\* await createConnector(url, connector), and the call of the gate that
\* follows it: const start = Date.now().
CreateConnector ==
    /\ gpc = "create"
    /\ \E fail \in BOOLEAN, srvErr \in BOOLEAN :
         LET resp == PostConnectors(registered, srvErr)
             res == CreateConnectorResult(fail, resp)
         IN /\ registered' = IF fail THEN registered ELSE resp.registered
            /\ regOutcome' = res.how
            /\ response' = res.status
            /\ gpc' = AfterCreate(res)
            /\ start' = now
    /\ UNCHANGED <<now, name, timeoutMs, status, gOutcome, gError, checks,
                   failedChecks, gSleeps, satisfied, gEnd>>
    /\ UNCHANGED <<pollVars, waitVars, clientVars, suiteVars, runVars, restVars>>

\* The gate's loop condition: a status check, or the timeout error.
GateCheck ==
    /\ gpc = "check"
    /\ IF GateContinues(now, start, timeoutMs)
       THEN /\ gpc' = "status"
            /\ UNCHANGED <<gOutcome, gError, gEnd>>
       ELSE /\ gpc' = "done"
            /\ gOutcome' = "thrown"
            /\ gError' = TimeoutError(name, timeoutMs)
            /\ gEnd' = now
    /\ UNCHANGED <<now, name, timeoutMs, start, registered, response, regOutcome,
                   status, checks, failedChecks, gSleeps, satisfied>>
    /\ UNCHANGED <<pollVars, waitVars, clientVars, suiteVars, runVars, restVars>>

\* The awaited getConnectorStatus settles after d ticks.
StatusReturn ==
    /\ gpc = "status"
    /\ \E d \in 0 .. MaxProbe, fail \in BOOLEAN, c \in States, ts \in TaskLists :
         LET reply == GetConnectorStatus(registered, fail, c, ts)
             next == AfterStatus(reply)
         IN /\ now' = now + d
            /\ status' = reply
            /\ checks' = checks + 1
            /\ failedChecks' = IF reply.kind # "status" THEN failedChecks + 1
                               ELSE failedChecks
            /\ satisfied' = IF reply.kind = "status" /\ RunningCondition(reply)
                            THEN satisfied + 1 ELSE satisfied
            /\ CASE next = "return" ->
                      /\ gpc' = "done"
                      /\ gOutcome' = "returned"
                      /\ gEnd' = now + d
                      /\ UNCHANGED gError
                 [] next = "throw" ->
                      /\ gpc' = "done"
                      /\ gOutcome' = "thrown"
                      /\ gError' = CheckError(reply)
                      /\ gEnd' = now + d
                 [] OTHER ->
                      /\ gpc' = "sleep"
                      /\ UNCHANGED <<gOutcome, gError, gEnd>>
    /\ registered' = TargetAfter(ProbeCall("waitForConnectorRunning"), registered, FALSE)
    /\ UNCHANGED <<name, timeoutMs, start, response, regOutcome, gSleeps>>
    /\ UNCHANGED <<pollVars, waitVars, clientVars, suiteVars, runVars, restVars>>

\* await new Promise((resolve) => setTimeout(resolve, 1000))
GateSleep ==
    /\ gpc = "sleep"
    /\ now' = now + GateIntervalMs
    /\ gSleeps' = gSleeps + 1
    /\ gpc' = "check"
    /\ UNCHANGED <<name, timeoutMs, start, registered, response, regOutcome, status,
                   gOutcome, gError, checks, failedChecks, satisfied, gEnd>>
    /\ UNCHANGED <<pollVars, waitVars, clientVars, suiteVars, runVars, restVars>>

GateNext == CreateConnector \/ GateCheck \/ StatusReturn \/ GateSleep

GateSpec == GateInit /\ [][GateNext]_vars

\* ------------------------------------------------ a wait helper's call
\* waitForIndex or waitForDocumentCount has just been called.
WaitInit ==
    /\ now \in 0 .. MaxStart
    /\ PollIdle
    /\ GateIdle
    /\ ClientIdle
    /\ SuiteIdle
    /\ RunIdle
    /\ RestIdle
    /\ helper \in WaitHelpers
    /\ indexName \in {"dbz.public.users", "test_documents"}
    /\ expectedCount \in (IF helper = "waitForIndex" THEN {0} ELSE 0 .. MaxDocs)
    /\ wTimeoutMs \in -1 .. MaxTimeout
    /\ wStart = now
    /\ wpc = "check"
    /\ index \in IndexStates
    /\ wOutcome = "none"
    /\ wChecks = 0
    /\ wSleeps = 0
    /\ wLast = NoWaitReply
    /\ wFailed = 0
    /\ wError = NoWaitError
    /\ wEnd = 0

\* The loop condition: a probe, or the error after the loop.
WaitCheck ==
    /\ wpc = "check"
    /\ IF WaitContinues(now, wStart, wTimeoutMs)
       THEN wpc' = "probe" /\ UNCHANGED <<wOutcome, wError, wEnd>>
       ELSE /\ wpc' = "done"
            /\ wOutcome' = "thrown"
            /\ wError' = WaitTimeoutError(helper, indexName, expectedCount, wTimeoutMs)
            /\ wEnd' = now
    /\ UNCHANGED <<now, helper, expectedCount, wTimeoutMs, wStart, index, wChecks, wSleeps,
                   indexName, wLast, wFailed>>
    /\ UNCHANGED <<pollVars, gateVars, clientVars, suiteVars, runVars, restVars>>

\* The awaited client.indices.exists / client.count settles after d ticks.
WaitProbeReturn ==
    /\ wpc = "probe"
    /\ \E d \in 0 .. MaxProbe, fail \in BOOLEAN :
         LET reply == WaitProbe(helper, index, fail)
             next == AfterWaitProbe(helper, reply, expectedCount)
         IN /\ now' = now + d
            /\ wLast' = reply
            /\ wFailed' = IF reply.kind = "error" THEN wFailed + 1 ELSE wFailed
            /\ IF next = "return"
               THEN wpc' = "done" /\ wOutcome' = "returned" /\ wEnd' = now + d
               ELSE wpc' = "sleep" /\ UNCHANGED <<wOutcome, wEnd>>
    /\ wChecks' = wChecks + 1
    /\ index' = TargetAfter(ProbeCall(helper), index, NoIndex)
    /\ UNCHANGED <<helper, expectedCount, wTimeoutMs, wStart, wSleeps, indexName, wError>>
    /\ UNCHANGED <<pollVars, gateVars, clientVars, suiteVars, runVars, restVars>>

\* await new Promise((resolve) => setTimeout(resolve, 1000))
WaitSleep ==
    /\ wpc = "sleep"
    /\ now' = now + WaitIntervalMs
    /\ wSleeps' = wSleeps + 1
    /\ wpc' = "check"
    /\ UNCHANGED <<helper, expectedCount, wTimeoutMs, wStart, index, wOutcome, wChecks,
                   indexName, wLast, wFailed, wError, wEnd>>
    /\ UNCHANGED <<pollVars, gateVars, clientVars, suiteVars, runVars, restVars>>

\* The sink, or a test, creates the index, writes or removes documents.
IndexChange ==
    /\ wpc \in {"check", "probe", "sleep"}
    /\ index' \in IndexStates \ {index}
    /\ UNCHANGED <<now, helper, expectedCount, wTimeoutMs, wStart, wpc, wOutcome, wChecks,
                   wSleeps, indexName, wLast, wFailed, wError, wEnd>>
    /\ UNCHANGED <<pollVars, gateVars, clientVars, suiteVars, runVars, restVars>>

WaitNext == WaitCheck \/ WaitProbeReturn \/ WaitSleep \/ IndexChange

WaitSpec == WaitInit /\ [][WaitNext]_vars

\* ------------------------------------- every loop, one call of one of them
LoopsInit == Init \/ GateInit \/ WaitInit

LoopsNext ==
    \/ LoopCheck \/ ProbeReturn \/ RedisGetReturn \/ Sleep \/ StoreChange
    \/ CreateConnector \/ GateCheck \/ StatusReturn \/ GateSleep
    \/ WaitCheck \/ WaitProbeReturn \/ WaitSleep \/ IndexChange

LoopsSpec == LoopsInit /\ [][LoopsNext]_vars

\* The running loop is never stopped half way: its loop condition is
\* evaluated and its timer fires (the steps that await nothing from outside),
\* and no awaited call (createConnector, a status check, a probe, the GET
\* after KEYS) stays pending for ever.
LoopsFairSpec ==
    /\ LoopsSpec
    /\ WF_vars(LoopCheck \/ Sleep \/ GateCheck \/ GateSleep \/ WaitCheck \/ WaitSleep)
    /\ []<>(/\ pc \notin {"probe", "get"}
            /\ gpc \notin {"create", "status"}
            /\ wpc # "probe")

\* ------------------------------- two loops on the Trino client of trino.ts
\* The module has just been loaded; both loops are about to call
\* executeTrinoQuery.
ClientInit ==
    /\ now = 0
    /\ PollIdle
    /\ GateIdle
    /\ WaitIdle
    /\ SuiteIdle
    /\ RunIdle
    /\ RestIdle
    /\ trinoClient = NullClient
    /\ made = 0
    /\ cpc = [c \in Callers |-> "call"]
    /\ local = [c \in Callers |-> NullClient]
    /\ result = [c \in Callers |-> Rows(<< >>)]
    /\ alone = [c \in Callers |-> Rows(<< >>)]
    /\ calls = [c \in Callers |-> 0]
    /\ trinoData \in StoreStates

\* executeTrinoQuery up to its await: getTrinoClient() and client.query(query)
\* run without a break.
ExecStart(c) ==
    /\ cpc[c] = "call"
    /\ calls[c] < MaxCalls
    /\ LET cl == GetTrinoClient(trinoClient, NewClient(made + 1, c)) IN
         /\ trinoClient' = cl
         /\ made' = IF cl = trinoClient THEN made ELSE made + 1
         /\ local' = [local EXCEPT ![c] = cl]
    /\ cpc' = [cpc EXCEPT ![c] = "query"]
    /\ UNCHANGED <<result, alone, calls, trinoData>>
    /\ UNCHANGED <<now, pollVars, gateVars, waitVars, suiteVars, runVars, restVars>>

\* The awaited query settles. alone is what the same query gives at this
\* moment to a caller that is the only one in the process.
ExecReturn(c) ==
    /\ cpc[c] = "query"
    /\ \E fail \in BOOLEAN :
         /\ result' = [result EXCEPT ![c] =
                          ClientQuery(QueryClient(local[c], trinoClient), trinoData, fail)]
         /\ alone' = [alone EXCEPT ![c] = ExecuteTrinoQuery(trinoData, fail)]
    /\ calls' = [calls EXCEPT ![c] = calls[c] + 1]
    /\ cpc' = [cpc EXCEPT ![c] = "call"]
    /\ UNCHANGED <<trinoClient, made, local, trinoData>>
    /\ UNCHANGED <<now, pollVars, gateVars, waitVars, suiteVars, runVars, restVars>>

\* resetTrinoClient(), called by other code of the process.
ResetTrinoClient ==
    /\ trinoClient # NullClient
    /\ made < MaxClients
    /\ trinoClient' = NullClient
    /\ UNCHANGED <<made, cpc, local, result, alone, calls, trinoData>>
    /\ UNCHANGED <<now, pollVars, gateVars, waitVars, suiteVars, runVars, restVars>>

\* The pipeline changes what Trino holds.
TrinoDataChange ==
    /\ \E c \in Callers : calls[c] < MaxCalls
    /\ trinoData' \in StoreStates \ {trinoData}
    /\ UNCHANGED <<trinoClient, made, cpc, local, result, alone, calls>>
    /\ UNCHANGED <<now, pollVars, gateVars, waitVars, suiteVars, runVars, restVars>>

ClientNext ==
    \/ \E c \in Callers : ExecStart(c)
    \/ \E c \in Callers : ExecReturn(c)
    \/ ResetTrinoClient
    \/ TrinoDataChange

ClientSpec == ClientInit /\ [][ClientNext]_vars

\* ------------------------------------------------- the suites in parallel
\* The run starts; the control plane holds what earlier runs left.
SuiteInit ==
    /\ now = 0
    /\ PollIdle
    /\ GateIdle
    /\ WaitIdle
    /\ ClientIdle
    /\ RunIdle
    /\ RestIdle
    /\ at = [s \in Suites |-> 1]
    /\ connectors \in SUBSET AllConnectors

\* A call of beforeAll that throws ends the setup: the tests are skipped and
\* afterAll runs.
NextStep(s, i, threw) ==
    IF threw /\ i <= Len(BeforeAll(s))
    THEN Len(BeforeAll(s)) + Len(Tests(s)) + 1
    ELSE i + 1

\* The next call of suite s: it throws when its fetch rejects, its gate times
\* out or its warmup fails.
SuiteStep(s) ==
    /\ at[s] >= 1
    /\ at[s] <= Len(Script(s))
    /\ \E fail \in BOOLEAN, srvErr \in BOOLEAN :
         /\ connectors' = ConnectorsAfter(Script(s)[at[s]], connectors, fail, srvErr)
         /\ at' = [at EXCEPT ![s] = NextStep(s, at[s], fail)]
    /\ UNCHANGED <<now, pollVars, gateVars, waitVars, clientVars, runVars, restVars>>

SuiteNext == \E s \in Suites : SuiteStep(s)

SuiteSpec == SuiteInit /\ [][SuiteNext]_vars

\* ------------------------------------------------------ the data of a run
\* A fresh database: the seed rows, their snapshot events in the topics, the
\* sinks registered and about to read the topics from the start.
RunInit ==
    /\ now = 0
    /\ PollIdle
    /\ GateIdle
    /\ WaitIdle
    /\ ClientIdle
    /\ SuiteIdle
    /\ RestIdle
    /\ users = {UserRow(i, "Seed", "seed") : i \in 1 .. SeedUsers}
    /\ orders = 1 .. SeedOrders
    /\ nextUserId = SeedUsers + 1
    /\ nextOrderId = SeedOrders + 1
    /\ usersTopic = [i \in 1 .. SeedUsers |-> UserEvent("r", UserRow(i, "Seed", "seed"))]
    /\ ordersTopic = [i \in 1 .. SeedOrders |-> OrderEvent("r", i)]
    /\ esOffset = 0
    /\ redisOffset = [users |-> 0, orders |-> 0]
    /\ esDocs = {}
    /\ redis = {}
    /\ syncPc = "insert"
    /\ syncId = 0
    /\ syncRet = NoEntry

\* insertUser(sql, email, name) of the 'Debezium CDC' suite; the source
\* connector appends the change event to dbz.public.users.
InsertUser ==
    /\ nextUserId <= SeedUsers + MaxUserInserts
    /\ LET row == UserRow(nextUserId, "Before Update", "cdc") IN
         /\ users' = users \cup {row}
         /\ usersTopic' = Append(usersTopic, UserEvent("c", row))
    /\ nextUserId' = nextUserId + 1
    /\ UNCHANGED <<orders, nextOrderId, ordersTopic, esOffset, redisOffset, esDocs, redis,
                   syncPc, syncId, syncRet>>
    /\ UNCHANGED <<now, pollVars, gateVars, waitVars, clientVars, suiteVars, restVars>>

\* UPDATE users SET name = 'After Update' WHERE email = ${email}
UpdateUser ==
    /\ \E u \in users :
         /\ u.by = "cdc"
         /\ u.name = "Before Update"
         /\ LET row == [u EXCEPT !.name = "After Update"] IN
              /\ users' = (users \ {u}) \cup {row}
              /\ usersTopic' = Append(usersTopic, UserEvent("u", row))
    /\ UNCHANGED <<orders, nextUserId, nextOrderId, ordersTopic, esOffset, redisOffset,
                   esDocs, redis, syncPc, syncId, syncRet>>
    /\ UNCHANGED <<now, pollVars, gateVars, waitVars, clientVars, suiteVars, restVars>>

\* DELETE FROM users WHERE email = ${email}
DeleteUser ==
    /\ \E u \in users :
         /\ u.by = "cdc"
         /\ users' = users \ {u}
         /\ usersTopic' = Append(usersTopic, UserEvent("d", u))
    /\ UNCHANGED <<orders, nextUserId, nextOrderId, ordersTopic, esOffset, redisOffset,
                   esDocs, redis, syncPc, syncId, syncRet>>
    /\ UNCHANGED <<now, pollVars, gateVars, waitVars, clientVars, suiteVars, restVars>>

\* insertOrder(sql, firstUser.id, 99.99, 'pending')
InsertOrder ==
    /\ nextOrderId <= SeedOrders + MaxOrderInserts
    /\ orders' = orders \cup {nextOrderId}
    /\ ordersTopic' = Append(ordersTopic, OrderEvent("c", nextOrderId))
    /\ nextOrderId' = nextOrderId + 1
    /\ UNCHANGED <<users, nextUserId, usersTopic, esOffset, redisOffset, esDocs, redis,
                   syncPc, syncId, syncRet>>
    /\ UNCHANGED <<now, pollVars, gateVars, waitVars, clientVars, suiteVars, restVars>>

\* 'should sync new PostgreSQL changes to Redis': insertUser, userId = user.id
SyncInsert ==
    /\ syncPc = "insert"
    /\ nextUserId <= SeedUsers + MaxUserInserts
    /\ LET row == UserRow(nextUserId, "Redis Sync Test User", "sync") IN
         /\ users' = users \cup {row}
         /\ usersTopic' = Append(usersTopic, UserEvent("c", row))
    /\ syncId' = nextUserId
    /\ nextUserId' = nextUserId + 1
    /\ syncPc' = "poll"
    /\ UNCHANGED <<orders, nextOrderId, ordersTopic, esOffset, redisOffset, esDocs, redis,
                   syncRet>>
    /\ UNCHANGED <<now, pollVars, gateVars, waitVars, clientVars, suiteVars, restVars>>

\* ... pollRedisForId(redis, userId, 90000): the attempt whose redis.get(key)
\* is not null returns the value (an attempt that reads null changes nothing).
SyncPoll ==
    /\ syncPc = "poll"
    /\ RedisGetKey(redis, PlainKey(syncId)) # NoEntry
    /\ syncRet' = RedisGetKey(redis, PlainKey(syncId))
    /\ syncPc' = "done"
    /\ UNCHANGED <<users, orders, nextUserId, nextOrderId, usersTopic, ordersTopic,
                   esOffset, redisOffset, esDocs, redis, syncId>>
    /\ UNCHANGED <<now, pollVars, gateVars, waitVars, clientVars, suiteVars, restVars>>

\* The Elasticsearch sink puts the next event of dbz.public.users.
EsSinkPut ==
    /\ esOffset < Len(usersTopic)
    /\ \E dropped \in BOOLEAN :
         esDocs' = EsPut(esDocs, usersTopic[esOffset + 1], dropped)
    /\ esOffset' = esOffset + 1
    /\ UNCHANGED <<users, orders, nextUserId, nextOrderId, usersTopic, ordersTopic,
                   redisOffset, redis, syncPc, syncId, syncRet>>
    /\ UNCHANGED <<now, pollVars, gateVars, waitVars, clientVars, suiteVars, restVars>>

\* The Redis sink puts the next event of one of its two topics.
RedisSinkPut ==
    /\ \E removed \in BOOLEAN :
         \/ /\ redisOffset.users < Len(usersTopic)
            /\ redis' = RedisPut(redis, usersTopic[redisOffset.users + 1], removed)
            /\ redisOffset' = [redisOffset EXCEPT !.users = @ + 1]
         \/ /\ redisOffset.orders < Len(ordersTopic)
            /\ redis' = RedisPut(redis, ordersTopic[redisOffset.orders + 1], removed)
            /\ redisOffset' = [redisOffset EXCEPT !.orders = @ + 1]
    /\ UNCHANGED <<users, orders, nextUserId, nextOrderId, usersTopic, ordersTopic,
                   esOffset, esDocs, syncPc, syncId, syncRet>>
    /\ UNCHANGED <<now, pollVars, gateVars, waitVars, clientVars, suiteVars, restVars>>

RunNext ==
    \/ InsertUser \/ UpdateUser \/ DeleteUser \/ InsertOrder
    \/ SyncInsert \/ SyncPoll
    \/ EsSinkPut \/ RedisSinkPut

RunSpec == RunInit /\ [][RunNext]_vars

\* ---------------------------------------- executeTrinoQuery on one stream
\* executeTrinoQuery(query) has just been called.
QueryInit ==
    /\ now = 0
    /\ PollIdle
    /\ GateIdle
    /\ WaitIdle
    /\ ClientIdle
    /\ SuiteIdle
    /\ RunIdle
    /\ ShellIdle
    /\ SetupIdle
    /\ CatalogIdle
    /\ iter \in Streams
    /\ qpos = 0
    /\ columns = << >>
    /\ allData = << >>
    /\ qpc = "call"

\* const iter = await client.query(query): rejects when Trino cannot be reached.
QueryStart ==
    /\ qpc = "call"
    /\ \E fail \in BOOLEAN : qpc' = IF fail THEN "thrown" ELSE "iterate"
    /\ UNCHANGED <<iter, qpos, columns, allData>>
    /\ UNCHANGED <<now, pollVars, gateVars, waitVars, clientVars, suiteVars, runVars>>
    /\ UNCHANGED <<shellVars, setupVars, catalogVars>>

\* One turn of for await (const queryResult of iter).
QueryPage ==
    /\ qpc = "iterate"
    /\ qpos < Len(iter)
    /\ LET page == iter[qpos + 1]
           cols == ColumnsAfter(columns, page)
       IN /\ columns' = cols
          /\ allData' = AllDataAfter(allData, cols, page)
    /\ qpos' = qpos + 1
    /\ UNCHANGED <<iter, qpc>>
    /\ UNCHANGED <<now, pollVars, gateVars, waitVars, clientVars, suiteVars, runVars>>
    /\ UNCHANGED <<shellVars, setupVars, catalogVars>>

\* The iterator is done: return { columns, data: allData }.
QueryReturn ==
    /\ qpc = "iterate"
    /\ qpos = Len(iter)
    /\ qpc' = "done"
    /\ UNCHANGED <<iter, qpos, columns, allData>>
    /\ UNCHANGED <<now, pollVars, gateVars, waitVars, clientVars, suiteVars, runVars>>
    /\ UNCHANGED <<shellVars, setupVars, catalogVars>>

QueryNext == QueryStart \/ QueryPage \/ QueryReturn

QuerySpec == QueryInit /\ [][QueryNext]_vars

\* ------------------------------------------------------- a run of check.sh
\* ./check.sh is started; each command's exit status is given by the working
\* tree and the services it runs against.
ShellInit ==
    /\ now = 0
    /\ PollIdle
    /\ GateIdle
    /\ WaitIdle
    /\ ClientIdle
    /\ SuiteIdle
    /\ RunIdle
    /\ QueryIdle
    /\ SetupIdle
    /\ CatalogIdle
    /\ tools \in [{Steps[i] : i \in 1 .. Len(Steps)} -> 0 .. MaxExit]
    /\ shpc = 1
    /\ ran = << >>
    /\ passed = FALSE
    /\ exitStatus = -1

\* echo "=== Running ... ==="; pnpm run <step>
ShellStep ==
    /\ shpc >= 1
    /\ shpc <= Len(Steps)
    /\ ran' = Append(ran, Steps[shpc])
    /\ IF SetE(tools[Steps[shpc]]) = "exit"
       THEN shpc' = 0 /\ exitStatus' = tools[Steps[shpc]]
       ELSE shpc' = shpc + 1 /\ UNCHANGED exitStatus
    /\ UNCHANGED <<tools, passed>>
    /\ UNCHANGED <<now, pollVars, gateVars, waitVars, clientVars, suiteVars, runVars>>
    /\ UNCHANGED <<queryVars, setupVars, catalogVars>>

\* echo "=== All checks passed ===", the last command of the script.
ShellEnd ==
    /\ shpc = Len(Steps) + 1
    /\ passed' = TRUE
    /\ shpc' = 0
    /\ exitStatus' = 0
    /\ UNCHANGED <<tools, ran>>
    /\ UNCHANGED <<now, pollVars, gateVars, waitVars, clientVars, suiteVars, runVars>>
    /\ UNCHANGED <<queryVars, setupVars, catalogVars>>

ShellSpec == ShellInit /\ [][ShellStep \/ ShellEnd]_vars

\* ------------------------------------------- the beforeAll of a sink suite
\* beforeAll of a sink suite starts; the control planes hold what earlier
\* runs and the suites in parallel left, and Redis may hold the order whose id
\* the warmup row is going to get.
SetupInit ==
    /\ now = 0
    /\ PollIdle
    /\ GateIdle
    /\ WaitIdle
    /\ ClientIdle
    /\ SuiteIdle
    /\ RunIdle
    /\ QueryIdle
    /\ ShellIdle
    /\ CatalogIdle
    /\ sSuite \in Suites \ {"debezium"}
    /\ spc = "source"
    /\ sLog = << >>
    /\ sError = "none"
    /\ sReg \in SUBSET {"postgres-source", sSuite}
    /\ downstream \in (IF sSuite = "redis-sink" THEN {"none", "order"} ELSE {"none"})
    /\ sWaited = 0
    /\ sFound = "none"

\* await createConnector(url, connector); await waitForConnectorRunning(url,
\* name, timeout), for the source connector and then for the sink connector.
\* The gate returns on a status check that satisfies it and throws its timeout
\* error when none does.
SetupConnector ==
    /\ spc \in {"source", "sink"}
    /\ LET c == IF spc = "source" THEN "postgres-source" ELSE sSuite IN
       \E fail \in BOOLEAN, srvErr \in BOOLEAN, gfail \in BOOLEAN, cs \in States :
         LET res == CreateConnectorResult(fail, PostConnectors(c \in sReg, srvErr))
             regs == ConnectorsAfter(Op("createConnector", c), sReg, fail, srvErr)
             reply == GetConnectorStatus(c \in regs, gfail, cs, <<[state |-> "RUNNING"]>>)
         IN /\ sReg' = regs
            /\ IF AfterCreate(res) = "done"
               THEN spc' = "failed" /\ sError' = "fetch failed" /\ UNCHANGED sLog
               ELSE IF AfterStatus(reply) = "return"
               THEN /\ spc' = IF spc = "source" THEN "sink" ELSE "insert"
                    /\ sLog' = Append(sLog, c)
                    /\ UNCHANGED sError
               ELSE /\ spc' = "failed"
                    /\ sError' = TimeoutError(c, 0).text
                    /\ UNCHANGED sLog
    /\ UNCHANGED <<sSuite, downstream, sWaited, sFound>>
    /\ UNCHANGED <<now, pollVars, gateVars, waitVars, clientVars, suiteVars, runVars>>
    /\ UNCHANGED <<queryVars, shellVars, catalogVars>>

\* await insertUser(sql, warmupEmail, '... Warmup User')
SetupInsert ==
    /\ spc = "insert"
    /\ spc' = "poll"
    /\ sLog' = Append(sLog, "insertUser")
    /\ UNCHANGED <<sSuite, sError, sReg, downstream, sWaited, sFound>>
    /\ UNCHANGED <<now, pollVars, gateVars, waitVars, clientVars, suiteVars, runVars>>
    /\ UNCHANGED <<queryVars, shellVars, catalogVars>>

\* One turn of the warmup poll's loop, and what beforeAll does with the
\* poll's result: if (!warmupFound) throw new Error('Pipeline warmup failed: ...').
SetupPoll ==
    /\ spc = "poll"
    /\ LET w == Warmup(sSuite) IN
       IF LoopContinues(sWaited, 0, w.maxWaitMs)
       THEN \E fail \in BOOLEAN :
              LET r == WarmupProbe(sSuite, downstream, fail)
                  next == AfterProbe(w.poller, r)
              IN CASE next = "return" ->
                        /\ spc' = "tests"
                        /\ sFound' = r.rows[1]
                        /\ sLog' = Append(sLog, "found")
                        /\ UNCHANGED <<sError, sWaited>>
                   [] next = "throw" ->
                        /\ spc' = "failed"
                        /\ sError' = "probe error"
                        /\ UNCHANGED <<sLog, sWaited, sFound>>
                   [] OTHER ->
                        /\ sWaited' = sWaited + w.pollIntervalMs
                        /\ UNCHANGED <<spc, sLog, sError, sFound>>
       ELSE /\ spc' = "failed"
            /\ sError' = "Pipeline warmup failed"
            /\ UNCHANGED <<sLog, sWaited, sFound>>
    /\ UNCHANGED <<sSuite, sReg, downstream>>
    /\ UNCHANGED <<now, pollVars, gateVars, waitVars, clientVars, suiteVars, runVars>>
    /\ UNCHANGED <<queryVars, shellVars, catalogVars>>

\* The sink puts an event: the warmup row's, or for Redis that of an order
\* with the same id.
DownstreamChange ==
    /\ spc = "poll"
    /\ downstream' \in (IF sSuite = "redis-sink" THEN {"warmup", "order"} ELSE {"warmup"})
                          \ {downstream}
    /\ UNCHANGED <<sSuite, spc, sLog, sError, sReg, sWaited, sFound>>
    /\ UNCHANGED <<now, pollVars, gateVars, waitVars, clientVars, suiteVars, runVars>>
    /\ UNCHANGED <<queryVars, shellVars, catalogVars>>

SetupSpec ==
    SetupInit /\ [][SetupConnector \/ SetupInsert \/ SetupPoll \/ DownstreamChange]_vars

\* --------------------------------------- the harness on the Iceberg catalog
\* The catalog as earlier runs left it: some schemas, no tables yet.
CatalogInit ==
    /\ now = 0
    /\ PollIdle
    /\ GateIdle
    /\ WaitIdle
    /\ ClientIdle
    /\ SuiteIdle
    /\ RunIdle
    /\ QueryIdle
    /\ ShellIdle
    /\ SetupIdle
    /\ catalog \in [schemas : SUBSET {"test_ns", "cdc"}, tables : {{}}]
    /\ catCall = [st |-> Statement("none", FALSE, "", "", ""), ok |-> TRUE, existed |-> FALSE]
    /\ catCalls = 0

\* One call of createIcebergNamespace, createIcebergTable or insertIntoIceberg:
\* await executeTrinoQuery(<statement>).
CatalogCall ==
    /\ catCalls < MaxCatCalls
    /\ \E ns \in {"test_ns", "cdc"}, cols \in {"id INTEGER", "id INTEGER, name VARCHAR"} :
         \E st \in {CreateIcebergNamespace(ns), CreateIcebergTable(ns, "test_table", cols),
                    InsertIntoIceberg(ns, "test_table")} :
           LET r == TrinoExecute(catalog, st) IN
           /\ \A t \in r.catalog.tables : t.rows <= MaxTableRows
           /\ catalog' = r.catalog
           /\ catCall' = [st |-> st, ok |-> r.ok,
                          existed |-> IF st.kind = "CREATE SCHEMA"
                                      THEN st.ns \in catalog.schemas
                                      ELSE \E t \in catalog.tables :
                                               t.ns = st.ns /\ t.name = st.table]
    /\ catCalls' = catCalls + 1
    /\ UNCHANGED <<now, pollVars, gateVars, waitVars, clientVars, suiteVars, runVars>>
    /\ UNCHANGED <<queryVars, shellVars, setupVars>>

CatalogSpec == CatalogInit /\ [][CatalogCall]_vars

\* ================================================================ claims
Elapsed == endTime - startTime
\* The call has ended and no attempt of it found a match.
NoMatchRun == pc = "done" /\ matched = "none"

\* C1: a probe attempt that fails with an error is swallowed by every poller:
\* the error never reaches the caller. (pollRedisForId awaits redis.get, and
\* in its KEYS-scan version redis.keys, outside any try: the error is thrown
\* out of the poller.)
C1_ProbeErrorSwallowed ==
    lastProbe.kind = "error" => (outcome # "thrown" /\ exitVia # "probeError")

\* C3, as claimed: a call in which no attempt found a match and which returned,
\* returned not-found at a time t after its start with D <= t <= D + I,
\* whatever the attempts' durations.
C3_WithinOneInterval ==
    (NoMatchRun /\ outcome = "returned") =>
        /\ ret = NotFound(poller)
        /\ maxWaitMs <= Elapsed
        /\ Elapsed <= maxWaitMs + pollIntervalMs

\* C3, amended: with D >= 0, a call in which no attempt found a match returns
\* not-found, when it returns, at a time t with D <= t < D + I + P, P being
\* the time its last attempt took.
C3_Bound ==
    (NoMatchRun /\ outcome = "returned" /\ maxWaitMs >= 0) =>
        /\ ret = (IF poller \in Booleans THEN "false" ELSE "null")
        /\ exitVia = "deadline"
        /\ maxWaitMs <= Elapsed
        /\ Elapsed < maxWaitMs + pollIntervalMs + lastDur
\* ... and every call ends, provided each awaited probe settles.
C3_DeadlineBound == []C3_Bound /\ <>(pc = "done")

\* C3's case: a call that made several attempts, found nothing, and returned
\* later than one interval after the deadline.
C3_Witness ==
    /\ NoMatchRun
    /\ outcome = "returned"
    /\ attempts >= 2
    /\ maxWaitMs > 0
    /\ Elapsed > maxWaitMs + pollIntervalMs

\* C4, as claimed: what a poller returns after an attempt that found a match is
\* the matching data of that attempt.
C4_ReturnsMatchingData ==
    (matched # "none" /\ pc = "done" /\ outcome = "returned") => ret = matched

\* C4, amended: after an attempt that found a match the poller starts no
\* further attempt and does not sleep; pollTrinoUntilFound and pollEsUntilFound
\* return true and the GET version of pollRedisForId returns the value read,
\* each at the moment that attempt ends; the KEYS-scan version ends with one
\* more GET of the matching key and settles with what that GET gives.
C4_ReturnsAtOnce ==
    matched # "none" =>
        /\ attempts = matchSnap[1]
        /\ sleeps = matchSnap[2]
        /\ pc \in {"done", "get"}
        /\ pc = "get" => poller = "pollRedisForIdKeys"
        /\ (pc = "done" /\ poller \in Booleans) =>
               (outcome = "returned" /\ ret = "true" /\ endTime = matchSnap[3])
        /\ (pc = "done" /\ poller = "pollRedisForId") =>
               (outcome = "returned" /\ ret = matched /\ endTime = matchSnap[3])
        /\ (pc = "done" /\ poller = "pollRedisForIdKeys") =>
               \/ outcome = "thrown"
               \/ outcome = "returned" /\ ret \in Values \cup {"null"}

\* C4's case: a match found after at least one unsuccessful attempt and sleep.
C4_Witness ==
    /\ matched # "none"
    /\ pc = "done"
    /\ outcome = "returned"
    /\ sleeps >= 1
    /\ attempts >= 2

\* C5: a poller that leaves its loop because the deadline has passed returns
\* its not-found value (false or null) and does not throw; an error thrown out
\* of a poller comes from a probe of an attempt started before the deadline.
C5_DeadlineReturnsNotFound ==
    /\ exitVia = "deadline" =>
           /\ outcome = "returned"
           /\ ret = (IF poller \in Booleans THEN "false" ELSE "null")
           /\ matched = "none"
    /\ outcome = "thrown" =>
           /\ exitVia = "probeError"
           /\ attemptStart - startTime < maxWaitMs

\* C5's case: the deadline passed after attempts that found nothing.
C5_Witness ==
    /\ exitVia = "deadline"
    /\ attempts >= 1
    /\ outcome = "returned"

\* C2: a response of createConnector with a status other than 201 and 409 is
\* reported to the caller as a failure at once, and the setup does not go on
\* to the readiness gate. (createConnector returns every response, and
\* beforeAll drops it and calls the gate.)
C2_OtherStatusIsFailure ==
    (response # 0 /\ response \notin {201, 409}) =>
        /\ regOutcome = "thrown"
        /\ gpc \notin {"check", "status", "sleep"}
        /\ checks = 0

\* The task list of st in another order.
Reorder(st, f) == [st EXCEPT !.tasks = [i \in 1 .. Len(st.tasks) |-> st.tasks[f[i]]]]

\* C6: the gate returns only after a status check that showed the connector
\* RUNNING and every task RUNNING; after a check that showed a task in another
\* state the gate waits on; and a check's outcome is the same for every order
\* of the task list.
C6_ReturnsOnlyWhenAllRunning ==
    /\ gOutcome = "returned" =>
           /\ status.kind = "status"
           /\ status.connector.state = "RUNNING"
           /\ \A i \in 1 .. Len(status.tasks) : status.tasks[i].state = "RUNNING"
    /\ (status.kind = "status"
        /\ \E i \in 1 .. Len(status.tasks) : status.tasks[i].state # "RUNNING") =>
           \/ gpc \in {"sleep", "check", "status"}
           \/ gOutcome = "thrown"
    /\ status.kind = "status" =>
           \A f \in Permutations(1 .. Len(status.tasks)) :
               AfterStatus(Reorder(status, f)) = AfterStatus(status)

\* C6's case: the gate returned on a status with several tasks, after a check
\* that did not satisfy it.
C6_Witness ==
    /\ gOutcome = "returned"
    /\ Len(status.tasks) >= 2
    /\ checks >= 2

\* C7: a gate that ends without a status check having satisfied the running
\* condition throws the timeout error, which carries the connector's name and
\* timeoutMs; what the gate throws is never the error of a status check.
C7_TimeoutErrorOnly ==
    /\ (gpc = "done" /\ regOutcome = "returned" /\ satisfied = 0) => gOutcome = "thrown"
    /\ gOutcome = "thrown" =>
           /\ gError.text = "did not reach RUNNING state within"
           /\ gError.name = name
           /\ gError.timeoutMs = timeoutMs
           /\ \A r \in {Rejected, NotFoundBody} : gError # CheckError(r)
           /\ satisfied = 0
           /\ gEnd - start >= timeoutMs

\* C7's case: the gate timed out after a status check had raised a network error.
C7_Witness ==
    /\ gOutcome = "thrown"
    /\ status.kind = "rejected"
    /\ failedChecks >= 1

\* C8: a status check that fails (fetch rejects, or the body has no connector
\* and tasks fields) does not end the gate: the gate goes to its sleep, the
\* sleep takes one second, and the loop condition is evaluated again.
C8_FailedCheckRetried ==
    [][/\ (gpc = "status" /\ gpc' # "status" /\ status'.kind \in {"rejected", "nofields"}) =>
              (gpc' = "sleep" /\ gOutcome' = "none")
       /\ (gpc = "sleep" /\ gpc' # "sleep") => (gpc' = "check" /\ now' = now + 1)
       /\ (gpc = "check" /\ gpc' # "check" /\ now - start < timeoutMs) => gpc' = "status"
      ]_vars

\* C8's case: a check of each failing kind was followed by a sleep and a
\* further check.
C8_Witness ==
    /\ failedChecks >= 1
    /\ checks >= 2
    /\ gSleeps >= 1
    /\ status.kind = "nofields"

\* C12: for every user inserted at the source, polling the downstream store by
\* the user's key finds a match and the read returns the one record whose name
\* and email are the inserted ones. For the Redis leg: what pollRedisForId
\* returns to the sync test is the change event of the user the test inserted.
\* (The sink writes the events of dbz.public.orders under the same keys: the
\* value found under String(id) may be the envelope of the order with that id.)
C12_PollReturnsInsertedUser ==
    syncPc = "done" =>
        /\ syncRet.table = "users"
        /\ \E u \in users :
               /\ u.id = syncId
               /\ syncRet.id = u.id
               /\ syncRet.email = u.email
               /\ syncRet.name = u.name

C14_ConnectorsStay ==
    [][/\ connectors \subseteq connectors'
       /\ "postgres-source" \in connectors => "postgres-source" \in connectors'
      ]_vars

\* C14's case: the 'Debezium CDC' suite has run its afterAll while a sink
\* suite is still in its tests, and postgres-source is registered.
C14_Witness ==
    /\ at["debezium"] > Len(Script("debezium"))
    /\ at["iceberg-sink"] > Len(BeforeAll("iceberg-sink"))
    /\ at["iceberg-sink"] <= Len(BeforeAll("iceberg-sink")) + Len(Tests("iceberg-sink"))
    /\ "postgres-source" \in connectors
    /\ "iceberg-sink" \in connectors

\* C15: whenever the gate has returned for postgres-source, the status shows
\* exactly one task and that task is RUNNING; the gate does not pass on a
\* connector whose task list is still empty. Stated here in its weaker half:
\* the status the gate returned on has a first task, and it is RUNNING.
\* ([].every(...) is true: the gate returns on connector.state RUNNING with
\* tasks [].)
C15_PassNeedsRunningTask ==
    (gOutcome = "returned" /\ name = "postgres-source") =>
        /\ Len(status.tasks) >= 1
        /\ status.tasks[1].state = "RUNNING"

\* C16: for every user row with id N that the pipeline has delivered to Redis,
\* the entry read by the key String(N) is the change event of that user: its
\* payload.after.id is N and its payload.after.email is the user's email, also
\* when order rows with the same id pass through the same sink connector.
\* (users.id and orders.id both count from 1, and the sink writes both topics
\* under the id alone: the order's envelope replaces the user's.)
C16_KeyHoldsUserEvent ==
    \A u \in users :
        (\E i \in 1 .. redisOffset.users : usersTopic[i].id = u.id) =>
            /\ RedisGetKey(redis, PlainKey(u.id)).table = "users"
            /\ RedisGetKey(redis, PlainKey(u.id)).id = u.id
            /\ RedisGetKey(redis, PlainKey(u.id)).email = u.email

\* C17: at the moment of the check every document of the index
\* dbz.public.users has exactly one row with the same id in the users table,
\* also after users were inserted and then deleted at the source by a suite
\* running in parallel. (The row is gone from PostgreSQL at once; the document
\* stays until the sink has put the delete, and for good when the delete is
\* dropped on the way.)
C17_EveryDocHasRow ==
    \A d \in esDocs : Cardinality({u \in users : u.id = d.id}) = 1

\* C18: every entry the sink has written to Redis holds an envelope whose
\* payload.after has the email and the name of the one users row with the same
\* id, at any moment and whichever entry is picked. (Entries of orders have
\* neither; an entry of an updated or deleted user is behind its row.)
C18_EveryEntryMatchesRow ==
    \A e \in redis :
        /\ e.hasAfter
        /\ Cardinality({u \in users : u.id = e.id}) = 1
        /\ \A u \in users : u.id = e.id => (u.email = e.email /\ u.name = e.name)

\* C19: within one poll loop the wait between the end of an unsuccessful
\* attempt and the start of the next is the same fixed interval for every
\* attempt, and nothing except the deadline stops the loop: a call in which no
\* attempt found a match ends only where its loop condition fails.
\* (pollRedisForId ends where its probe throws, see C1.)
C19_FixedIntervalDeadlineOnly ==
    [][/\ (pc = "sleep" /\ pc' # "sleep") =>
              (pc' = "check" /\ now' = now + pollIntervalMs)
       /\ (pc # "done" /\ pc' = "done" /\ matched' = "none") =>
              (pc = "check" /\ ~(now - startTime < maxWaitMs))
      ]_vars

\* C20: a poll loop only reads the system it observes: no step of
\* pollTrinoUntilFound, pollEsUntilFound or pollRedisForId changes the store,
\* no step of waitForConnectorRunning changes what the control plane holds,
\* and no step of waitForIndex or waitForDocumentCount changes the index. (The
\* steps of a loop are those that move its position.)
C20_PollOnlyReads ==
    [][/\ pc' # pc => store' = store
       /\ (gpc' # gpc /\ gpc # "create") => registered' = registered
       /\ wpc' # wpc => index' = index
      ]_vars

\* C20's case: a loop that has ended after several attempts, on a target that
\* holds the record, the connector, the documents.
C20_Witness ==
    \/ pc = "done" /\ attempts >= 2 /\ store \in Values
    \/ gpc = "done" /\ checks >= 2 /\ registered
    \/ wpc = "done" /\ wChecks >= 2 /\ index.count >= 1

\* C21: the deadline is checked only before an attempt starts. No attempt
\* starts once the elapsed time has reached the maximum wait; an attempt in
\* flight when the deadline passes is left to finish, and what it gives is
\* used whatever the time is by then: on a match pollTrinoUntilFound and
\* pollEsUntilFound return true, the GET version of pollRedisForId returns the
\* value, and the KEYS-scan version goes to its final GET, which no deadline
\* stops either.
C21_DeadlineBeforeAttemptOnly ==
    [][/\ attempts' # attempts =>
              /\ attempts' = attempts + 1
              /\ pc = "check"
              /\ now - startTime < maxWaitMs
       /\ (pc = "check" /\ pc' # "check" /\ now - startTime >= maxWaitMs) =>
              (pc' = "done" /\ exitVia' = "deadline")
       /\ exitVia' # exitVia /\ exitVia' = "deadline" => pc = "check"
       /\ (pc = "probe" /\ pc' # "probe" /\ lastProbe'.kind = "ok"
           /\ Len(lastProbe'.rows) > 0) =>
              CASE poller \in Booleans ->
                     pc' = "done" /\ outcome' = "returned" /\ ret' = "true"
                [] poller = "pollRedisForId" ->
                     pc' = "done" /\ outcome' = "returned" /\ ret' = lastProbe'.rows[1]
                [] OTHER -> pc' = "get"
       /\ (pc = "get" /\ pc' # "get") => (pc' = "done" /\ exitVia' # "deadline")
      ]_vars

\* C21's case: an attempt started before the deadline, ended after it with a
\* match, and the poller returned true.
C21_Witness ==
    /\ pc = "done"
    /\ poller \in Booleans
    /\ maxWaitMs > 0
    /\ attemptStart - startTime < maxWaitMs
    /\ endTime - startTime > maxWaitMs
    /\ attempts >= 2
    /\ exitVia = "match"
    /\ ret = "true"

\* The rows of a stream, page after page.
RECURSIVE FlatRows(_)
FlatRows(s) ==
    IF s = << >> THEN << >>
    ELSE (IF Head(s).hasData THEN Head(s).data ELSE << >>) \o FlatRows(Tail(s))
\* The columns of the first page that has them.
RECURSIVE FirstColumns(_)
FirstColumns(s) ==
    IF s = << >> THEN << >>
    ELSE IF Head(s).hasColumns THEN Head(s).columns
    ELSE FirstColumns(Tail(s))

\* C22: executeTrinoQuery returns only after the whole stream is consumed; its
\* data holds all rows of all pages in stream order, each row as an object
\* that maps every column name in columns to the value at that column's
\* position, and its columns are those of the first page that carries them.
\* (Two columns of one name are written to one property: the object holds the
\* value of the last of them, the value of the first is lost.)
C22_DataMapsEveryColumn ==
    qpc = "done" =>
        /\ qpos = Len(iter)
        /\ columns = FirstColumns(iter)
        /\ Len(allData) = Len(FlatRows(iter))
        /\ \A k \in 1 .. Len(allData) :
               \A i \in 1 .. Len(columns) :
                   /\ columns[i].name \in DOMAIN allData[k]
                   /\ allData[k][columns[i].name] = FlatRows(iter)[k][i]

\* C23: waitForDocumentCount returns normally as soon as one count check
\* reports at least expectedCount documents (a larger count also passes); a
\* failed count check does not end it: it sleeps one second and evaluates its
\* loop condition again; and it throws an error naming the index, the expected
\* count and timeoutMs if no check reached the count before timeoutMs had
\* elapsed.
C23_CountReached ==
    helper = "waitForDocumentCount" =>
        /\ wOutcome = "returned" =>
               /\ wLast.kind = "ok"
               /\ wLast.count >= expectedCount
        /\ (wLast.kind = "ok" /\ wLast.count >= expectedCount) =>
               /\ wpc = "done"
               /\ wOutcome = "returned"
        /\ wOutcome = "thrown" =>
               /\ wError.text = "did not reach documents within"
               /\ wError.index = indexName
               /\ wError.expectedCount = expectedCount
               /\ wError.timeoutMs = wTimeoutMs
               /\ wEnd - wStart >= wTimeoutMs
               /\ ~(wLast.kind = "ok" /\ wLast.count >= expectedCount)
C23_Retry ==
    helper = "waitForDocumentCount" =>
        /\ (wpc = "probe" /\ wpc' # "probe" /\ wLast'.kind = "error") =>
               (wpc' = "sleep" /\ wOutcome' = "none")
        /\ (wpc = "sleep" /\ wpc' # "sleep") => (wpc' = "check" /\ now' = now + 1)
        /\ (wpc = "check" /\ wpc' # "check" /\ now - wStart < wTimeoutMs) => wpc' = "probe"
C23_WaitForDocumentCount == []C23_CountReached /\ [][C23_Retry]_vars

\* C23's case: a count check failed, the helper slept, and a later check
\* reported more documents than expected.
C23_Witness ==
    /\ helper = "waitForDocumentCount"
    /\ wOutcome = "returned"
    /\ wFailed >= 1
    /\ wSleeps >= 1
    /\ expectedCount >= 1
    /\ wLast.count > expectedCount

\* C24: check.sh runs format, lint, typecheck and test in this order, stops at
\* the first step that fails without running the later steps, and prints
\* 'All checks passed' only when all four steps succeeded.
C24_StopsAtFirstFailure ==
    /\ Len(ran) <= 4
    /\ \A i \in 1 .. Len(ran) : ran[i] = <<"format", "lint", "typecheck", "test">>[i]
    /\ \A i \in 1 .. Len(ran) - 1 : tools[ran[i]] = 0
    /\ (Len(ran) >= 1 /\ tools[ran[Len(ran)]] # 0) =>
           (shpc = 0 /\ exitStatus # 0 /\ ~passed)
    /\ passed => (Len(ran) = 4 /\ \A i \in 1 .. 4 : tools[ran[i]] = 0)
    /\ (shpc = 0 /\ exitStatus = 0) => passed

\* C24's case: lint failed after format succeeded; typecheck and test, which
\* would succeed, were not run.
C24_Witness ==
    /\ shpc = 0
    /\ ran = <<"format", "lint">>
    /\ exitStatus # 0
    /\ tools["typecheck"] = 0
    /\ tools["test"] = 0

\* C25: in each sink suite the setup runs in this order: source connector
\* registered and RUNNING, sink connector registered and RUNNING, one warmup
\* row inserted, the warmup row observed downstream; no test runs before the
\* warmup row was observed, and a setup that ends at the warmup poll fails with
\* the 'Pipeline warmup failed' error after the warmup limit. (The Redis
\* suite's poll returns whatever the key String(id) holds, the order of that
\* id included, and throws the error of a failed GET.)
C25_WarmupBeforeTests ==
    /\ \A i \in 1 .. Len(sLog) : sLog[i] = <<"postgres-source", sSuite, "insertUser", "found">>[i]
    /\ Len(sLog) >= 1 => "postgres-source" \in sReg
    /\ Len(sLog) >= 2 => sSuite \in sReg
    /\ spc = "tests" => (Len(sLog) = 4 /\ sFound = "warmup")
    /\ (spc = "failed" /\ Len(sLog) = 3) =>
           /\ sError = "Pipeline warmup failed"
           /\ sWaited >= (IF sSuite = "iceberg-sink" THEN 240 ELSE 120)

\* C26: createIcebergNamespace and createIcebergTable may be called again for
\* a namespace or table that already exists: the repeated call succeeds and
\* leaves the namespace, the table definition and the table's rows unchanged
\* (also when the repeated createIcebergTable names other columns).
C26_CreateAgainChangesNothing ==
    [][(catCalls' # catCalls /\ catCall'.st.kind \in {"CREATE SCHEMA", "CREATE TABLE"}
        /\ catCall'.existed) =>
           (catCall'.ok /\ catalog' = catalog)
      ]_vars

\* C26's case: createIcebergTable was called with other columns for a table
\* that holds rows.
C26_Witness ==
    /\ catCall.st.kind = "CREATE TABLE"
    /\ catCall.existed
    /\ \E t \in catalog.tables :
           /\ t.ns = catCall.st.ns
           /\ t.rows >= 1
           /\ t.columns # catCall.st.columns

\* The record has been visible without a break since a time before the deadline.
VisibleBeforeDeadline == visibleSince # -1 /\ visibleSince - startTime < maxWaitMs
\* When the last attempt's reads ended.
LastRead == attemptStart + lastDur

\* C27, as claimed: if the awaited record becomes visible downstream at any
\* time before the deadline and stays visible, the poller returns found; it
\* returns not-found only when the record was not visible at any moment before
\* the deadline.
C27_VisibleMeansFound ==
    /\ (pc = "done" /\ VisibleBeforeDeadline) =>
           (outcome = "returned" /\ ret # NotFound(poller))
    /\ (pc = "done" /\ outcome = "returned" /\ ret = NotFound(poller)) =>
           ~VisibleBeforeDeadline

\* C27, amended: the store is read only by the attempts. A poller that
\* returned not-found made no attempt, or its last attempt's probe failed, or
\* the record was not visible when that attempt read: it is not visible now,
\* or became visible only after the read. A poller that returned found read
\* the record in its last attempt. A record visible since before the last
\* attempt's read, which did not fail, is never answered with not-found: the
\* poller returns found, or the KEYS poller's GET throws after its KEYS read.
C27_FoundIffRead ==
    /\ (pc = "done" /\ exitVia = "deadline") =>
           \/ attempts = 0
           \/ lastProbe.kind = "error"
           \/ visibleSince = -1
           \/ visibleSince >= LastRead
    /\ (pc = "done" /\ outcome = "returned" /\ ret # NotFound(poller)) =>
           (matched # "none" /\ exitVia = "match")
    /\ (pc = "done" /\ attempts >= 1 /\ lastProbe.kind = "ok"
        /\ visibleSince # -1 /\ visibleSince < LastRead) =>
           \/ outcome = "returned" /\ ret # NotFound(poller)
           \/ outcome = "thrown" /\ poller = "pollRedisForIdKeys"

\* C27's case: the record became visible before the deadline, after the last
\* attempt had read, stayed visible, and the poller returned not-found.
C27_Witness ==
    /\ pc = "done"
    /\ exitVia = "deadline"
    /\ attempts >= 2
    /\ lastProbe.kind = "ok"
    /\ VisibleBeforeDeadline
    /\ visibleSince >= LastRead

\* The gate has been called: createConnector did not throw before it.
GateCalled == gpc \in {"check", "status", "sleep"} \/ (gpc = "done" /\ gOutcome # "none")

\* C28: a poller, the gate or a wait helper called with a maximum wait of 0
\* or less makes no attempt and ends with its timeout outcome (the not-found
\* value, or the timeout error), whatever state the target is in; called
\* with a positive maximum wait it does not end before it has made an attempt.
C28_NoAttemptWithoutWait ==
    /\ (pc # "idle" /\ maxWaitMs <= 0) =>
           /\ attempts = 0
           /\ pc \in {"check", "done"}
           /\ pc = "done" =>
                  (outcome = "returned" /\ ret = NotFound(poller) /\ endTime = startTime)
    /\ (pc = "done" /\ maxWaitMs > 0) => attempts >= 1
    /\ (GateCalled /\ timeoutMs <= 0) =>
           /\ checks = 0
           /\ gpc \in {"check", "done"}
           /\ gpc = "done" =>
                  (gOutcome = "thrown" /\ gError = TimeoutError(name, timeoutMs))
    /\ (GateCalled /\ gpc = "done" /\ timeoutMs > 0) => checks >= 1
    /\ (wpc # "idle" /\ wTimeoutMs <= 0) =>
           /\ wChecks = 0
           /\ wpc \in {"check", "done"}
           /\ wpc = "done" =>
                  /\ wOutcome = "thrown"
                  /\ wError = WaitTimeoutError(helper, indexName, expectedCount, wTimeoutMs)
    /\ (wpc = "done" /\ wTimeoutMs > 0) => wChecks >= 1

\* C28's case: the awaited record is visible and stays so, and the poller,
\* called with a maximum wait of 0, has returned not-found without a read.
C28_Witness ==
    /\ pc = "done"
    /\ maxWaitMs = 0
    /\ store \in Values
    /\ visibleSince = startTime
    /\ attempts = 0
    /\ ret = NotFound(poller)

\* ceil(d / i) for d > 0 and i > 0.
CeilDiv(d, i) == (d + i - 1) \div i
\* Attempts begun by the gate: status checks settled, and the one in flight.
GateAttempts == checks + (IF gpc = "status" THEN 1 ELSE 0)

\* C29: with maximum wait D > 0 and interval I > 0 a poller begins at most
\* ceil(D / I) attempts and the gate, whose interval is one second, at most
\* ceil(D / 1) status checks, whatever the attempts return and however long
\* they take; and the loop ends, by returning or by throwing.
C29_AttemptsBounded ==
    /\ [](/\ (pc # "idle" /\ maxWaitMs > 0 /\ pollIntervalMs > 0) =>
                 attempts <= CeilDiv(maxWaitMs, pollIntervalMs)
          /\ (GateCalled /\ timeoutMs > 0) =>
                 GateAttempts <= CeilDiv(timeoutMs, GateIntervalMs))
    /\ <>(pc = "done" \/ gpc = "done" \/ wpc = "done")

\* C29's case: a poller with D = 3 and I = 2 has ended after ceil(3 / 2) = 2
\* attempts, the second of which took time and ended after the deadline.
C29_Witness ==
    /\ pc = "done"
    /\ maxWaitMs = 3
    /\ pollIntervalMs = 2
    /\ attempts = 2
    /\ lastDur > 0
    /\ endTime - startTime > maxWaitMs

\* Caller c's call of getTrinoClient happens in this step.
GetCalled(c) == cpc[c] = "call" /\ cpc'[c] = "query"

\* C30: getTrinoClient creates the client when the module holds none (on the
\* first call, and on the first call after resetTrinoClient) and otherwise
\* returns the instance the module holds, which stays the same from call to
\* call; a created instance is a new one; an instance is created only while
\* the module holds none, so it holds at most one, the latest created; only
\* resetTrinoClient takes the held instance away.
C30_SingleClient ==
    [][/\ \A c \in Callers :
              GetCalled(c) =>
                  /\ trinoClient' # NullClient
                  /\ local'[c] = trinoClient'
                  /\ IF trinoClient = NullClient
                     THEN /\ made' = made + 1
                          /\ trinoClient'.id = made'
                          /\ \A d \in Callers : local[d] # trinoClient'
                     ELSE /\ trinoClient' = trinoClient
                          /\ made' = made
       /\ made' # made => (trinoClient = NullClient /\ made' = made + 1)
       /\ (trinoClient # NullClient /\ trinoClient' # trinoClient) =>
              (trinoClient' = NullClient /\ \A c \in Callers : ~GetCalled(c))
      ]_vars

\* C30's case: after a reset a call of loop1 created the second instance, a
\* later call of loop2 got that same instance, and the module holds it.
C30_Witness ==
    /\ made = 2
    /\ trinoClient = NewClient(2, "loop1")
    /\ local["loop1"] = trinoClient
    /\ local["loop2"] = trinoClient

====
